---- MODULE Spec2Model ----
(***************************************************************************)
(* The carousel session/history state manager of src/App.tsx: the React    *)
(* state of the App component, its handlers (one action per handler or per *)
(* await-delimited step of an async handler) and the history persistence   *)
(* effect with its quota auto-trim.                                        *)
(***************************************************************************)
EXTENDS Integers, Sequences, FiniteSets, TLC

VARIABLES
    user,                       \* useState<UserProfile | null>: <<>> or <<profile>>
    view,                       \* useState<AppView>
    apiKey,                     \* settings.apiKey ("" when not configured)
    carouselHistory,            \* useState<Carousel[]>
    currentCarousel,            \* useState<Carousel | null>: <<>> or <<carousel>>
    selectedSlideId,            \* useState<string | null>: <<>> or <<id>>
    currentTopic,               \* useState('')
    error,                      \* useState<string | null>: <<>> or <<message key>>
    stored,                     \* localStorage[HISTORY_STORAGE_KEY], as written by setItem
    writeLog,                   \* the setItem attempts of the last run of the save effect
    isGenerating,               \* useState(false)
    isGeneratingImageForSlide,  \* useState<string | null>
    isGeneratingVideoForSlide,  \* useState<string | null>
    generationMessage,          \* useState(''): the message key and its parameters, <<>> for ''
    regeneratingPart,           \* useState<{slideId, part} | null>
    tasks,                      \* the async handlers suspended at an await, with their calls in flight
    uuid,                       \* number of crypto.randomUUID() results handed out
    clock,                      \* new Date(): a logical clock
    session,                    \* whether the auth client holds a session
    postLoginError,             \* useState<string | null>: <<>> or <<message key>>
    profileRow,                 \* the user's row of the profiles table: <<>> or <<row>>
    isSettingsOpen,             \* useState(false)
    previousView,               \* useState<AppView>('DASHBOARD')
    downloadCount,              \* useState<number>
    storedDownloads,            \* localStorage[DOWNLOADS_STORAGE_KEY]: <<>> or <<count>>
    isDownloading,              \* useState(false)
    downloads                   \* the archives handed to the browser by link.click()

sessionVars == <<carouselHistory, currentCarousel, selectedSlideId, currentTopic>>
storageVars == <<stored, writeLog>>
busyVars == <<isGenerating, isGeneratingImageForSlide, isGeneratingVideoForSlide,
              generationMessage, regeneratingPart>>
asyncVars == <<tasks>>
authVars == <<session, postLoginError, profileRow>>
navVars == <<isSettingsOpen, previousView>>
exportVars == <<downloadCount, storedDownloads, isDownloading, downloads>>
\* the state no handler of the carousel session writes
envVars == <<user, apiKey, uuid, clock, authVars, navVars, exportVars>>
vars == <<user, view, apiKey, carouselHistory, currentCarousel, selectedSlideId,
          currentTopic, error, stored, writeLog, isGenerating,
          isGeneratingImageForSlide, isGeneratingVideoForSlide, generationMessage,
          regeneratingPart, tasks, uuid, clock, session, postLoginError, profileRow,
          isSettingsOpen, previousView, downloadCount, storedDownloads, isDownloading,
          downloads>>

----------------------------------------------------------------------------
(* Bounds of the model. *)

\* slides returned by one generateCarouselContent call
MaxSlides == 2
\* carousels created in one run (handleGenerateCarousel calls that reach line 530)
MaxCarousels == 2
\* async handlers suspended at the same time
MaxTasks == 2

----------------------------------------------------------------------------
(* Values. null and undefined are modelled without mixing types: a         *)
(* nullable state is a sequence of length 0 or 1.                          *)

Null == <<>>
Some(x) == <<x>>
IsNull(x) == x = <<>>
The(x) == x[1]

\* An object is a function from its property names; a missing property is
\* a name outside DOMAIN. A property value is a string, modelled as the
\* sequence of the pieces the code can tell apart (Str: a string of one
\* piece), or Undefined: the value of a property that is present but
\* undefined ({ backgroundImage: undefined }).
Str(piece) == <<piece>>
Undefined == <<>>

\* { ...a, ...b }
Spread(a, b) ==
    [k \in (DOMAIN a) \cup (DOMAIN b) |-> IF k \in DOMAIN b THEN b[k] ELSE a[k]]

\* const o = { ...a }; delete o[k]
DeleteKey(a, k) == [j \in (DOMAIN a) \ {k} |-> a[j]]

\* a?.[k]: the property, or undefined when it is missing
Get(a, k) == IF k \in DOMAIN a THEN a[k] ELSE Undefined

\* Array.prototype.findIndex(x => x.id === id), 1-based; 0 stands for -1
FindIndexById(s, id) ==
    IF \E i \in 1..Len(s) : s[i].id = id
    THEN CHOOSE i \in 1..Len(s) : s[i].id = id /\ \A j \in 1..(i - 1) : s[j].id # id
    ELSE 0

\* String.prototype.startsWith: a prefix of the pieces
StartsWith(str, prefix) ==
    /\ Len(str) >= Len(prefix)
    /\ \A i \in 1..Len(prefix) : str[i] = prefix[i]

DataVideoPrefix == <<"data:", "video">>
DataImagePrefix == <<"data:", "image">>

\* payloads a slide's backgroundImage can hold
ImagePayload(n) == <<"data:", "image", "/png;base64,", n>>
VideoPayload(n) == <<"data:", "video", "/mp4;base64,", n>>
VideoLink(n) == <<"https:", "video", "/download", n>>

\* crypto.randomUUID(): the n-th result; 'temp-' + crypto.randomUUID()
Uuid(n) == <<"uuid", n>>
TempId(n) == <<"temp-", n>>

----------------------------------------------------------------------------
(* The data model (./types, used by src/App.tsx). *)

\* the preferences argument of handleGenerateCarousel (the Generator's form)
FormPreferences ==
    [backgroundColor |-> Str("#FFFFFF"), fontColor |-> Str("#111827"), font |-> Str("Inter"),
     aspectRatio |-> Str("1:1"), brandingText |-> Str(""), brandingStyle |-> Str("bs0"),
     headlineStyle |-> Str("hs0"), bodyStyle |-> Str("ys0")]

\* settings.brandKit, as handleApplyBrandKit reads it
BrandKit ==
    [primary |-> Str("#KITBG"), text |-> Str("#KITFG"), body |-> Str("KitFont"),
     brandingText |-> Str("@kit"), brandingStyle |-> Str("bsKit")]

\* one element of the array generateCarouselContent resolves to
ContentSlide(k) == [headline |-> Str("h0"), body |-> Str("b0"), visual_prompt |-> <<"prompt", k>>]

\* a user profile whose setup is complete
CompleteUser == [niche |-> <<"Tech">>, profileComplete |-> TRUE]

Topics == {"Coffee Brewing", "Tea"}

\* const nicheToUse = niche || (user.niche.length > 0 ? user.niche[0] : 'General')
NicheToUse(niche, u) ==
    IF niche # "" THEN niche
    ELSE IF Len(u.niche) > 0 THEN u.niche[1] ELSE "General"

\* lines 528-537: the slides get their ids first, then the carousel its id
NewCarousel(topic, nicheToUse, preferences, nSlides, firstUuid, now) ==
    [id |-> Uuid(firstUuid + nSlides),
     title |-> topic,
     createdAt |-> now,
     slides |-> [k \in 1..nSlides |-> Spread(ContentSlide(k), [id |-> Uuid(firstUuid + k - 1)])],
     category |-> nicheToUse,
     preferences |-> preferences]

SlideIdsOf(c) == {c.slides[i].id : i \in 1..Len(c.slides)}
HistoryIds(h) == {h[i].id : i \in 1..Len(h)}
InHistory(h, id) == \E i \in 1..Len(h) : h[i].id = id
EntryOf(h, id) == h[FindIndexById(h, id)]

----------------------------------------------------------------------------
(* History persistence: the effect of lines 223-272. *)

\* what one localStorage.setItem can do: succeed, throw a quota error
\* (QuotaExceededError, code 22 or 1014, or a message holding 'quota'),
\* or throw any other error
Outcomes == {"ok", "quota", "other"}

\* a storage behaviour: the outcome of the k-th setItem of one run of the effect
StorageBehaviours == [1..MaxCarousels -> Outcomes]
StorageOk == [k \in 1..MaxCarousels |-> "ok"]

\* lines 235-241 without the delete: the copy of the slide as it is
CopySlide(slide) == slide

\* newSlide.backgroundImage && newSlide.backgroundImage.startsWith('data:video')
IsInlineVideo(slide) ==
    /\ "backgroundImage" \in DOMAIN slide
    /\ slide.backgroundImage # Undefined
    /\ StartsWith(slide.backgroundImage, DataVideoPrefix)

\* lines 235-241: the copy of a slide without an inline video
SanitizeSlide(slide) ==
    IF IsInlineVideo(slide) THEN DeleteKey(slide, "backgroundImage") ELSE slide

\* lines 233-242
SanitizeHistory(h) ==
    [i \in 1..Len(h) |->
        [h[i] EXCEPT !.slides = [j \in 1..Len(h[i].slides) |-> SanitizeSlide(h[i].slides[j])]]]

\* JSON.stringify of an object: a property whose value is undefined is left out
StringifyObject(o) == [k \in {j \in DOMAIN o : o[j] # Undefined} |-> o[k]]

\* JSON.stringify(sanitizedHistory), as JSON.parse reads it back
Stringify(h) ==
    [i \in 1..Len(h) |->
        [h[i] EXCEPT !.slides = [j \in 1..Len(h[i].slides) |-> StringifyObject(h[i].slides[j])],
                     !.preferences = StringifyObject(h[i].preferences)]]

\* what the log keeps of one setItem attempt and of the setError call
Attempt(snapshot, outcome) ==
    [op |-> "setItem", ids |-> [i \in 1..Len(snapshot) |-> snapshot[i].id], outcome |-> outcome]
ReportTooLarge == [op |-> "setError", ids |-> <<>>, outcome |-> "errorHistoryTooLarge"]

\* historyToSave.slice(1): the list without its first, newest entry
DropNewest(h) == SubSeq(h, 2, Len(h))

\* line 257: historyToSave.slice(0, -1)
DropOldest(h) == SubSeq(h, 1, Len(h) - 1)

\* lines 224-269. The result: what was written (Null: nothing) and the log
\* of the setItem attempts, ended by the setError call of line 263 if made.
RECURSIVE saveHistoryWithAutoTrim(_, _, _)
saveHistoryWithAutoTrim(historyToSave, storage, k) ==
    IF Len(historyToSave) = 0
    THEN [written |-> IF storage[k] = "ok" THEN Some(<<>>) ELSE Null,
          log |-> <<Attempt(<<>>, storage[k])>>]
    ELSE LET sanitizedHistory == SanitizeHistory(historyToSave)
             this == Attempt(sanitizedHistory, storage[k])
         IN  CASE storage[k] = "ok" ->
                    [written |-> Some(Stringify(sanitizedHistory)), log |-> <<this>>]
               [] storage[k] = "quota" /\ Len(historyToSave) > 1 ->
                    LET rest == saveHistoryWithAutoTrim(DropOldest(historyToSave), storage,
                                                        k + 1)
                    IN  [rest EXCEPT !.log = <<this>> \o @]
               [] storage[k] = "quota" /\ Len(historyToSave) <= 1 ->
                    [written |-> Null, log |-> <<this, ReportTooLarge>>]
               [] OTHER ->
                    [written |-> Null, log |-> <<this>>]

\* a run of the effect whose last setItem threw, whatever the error
EndedInFailure(log) == Len(log) > 0 /\ log[Len(log)].outcome # "ok"

\* whether a run of the effect ended in setError (line 263)
ReportedTooLarge(log) == Len(log) > 0 /\ log[Len(log)].op = "setError"

\* a save whose eviction also cuts the history in memory down to what was
\* written
CommitTrimmed(newHistory, newArray, handlerError, storage) ==
    IF newArray
    THEN LET r == saveHistoryWithAutoTrim(newHistory, storage, 1)
         IN  /\ carouselHistory' = IF IsNull(r.written) THEN newHistory
                                    ELSE SubSeq(newHistory, 1, Len(The(r.written)))
             /\ stored' = IF IsNull(r.written) THEN stored ELSE The(r.written)
             /\ writeLog' = r.log
             /\ error' = IF ReportedTooLarge(r.log) THEN Some("errorHistoryTooLarge")
                          ELSE handlerError
    ELSE /\ carouselHistory' = newHistory
         /\ UNCHANGED storageVars
         /\ error' = handlerError

\* The render after a handler: carouselHistory becomes newHistory; when the
\* handler made a new array the effect (deps [carouselHistory, t]) runs and
\* its setError lands after the handler's own (handlerError).
CommitHistory(newHistory, newArray, handlerError, storage) ==
    /\ carouselHistory' = newHistory
    /\ IF newArray
       THEN LET r == saveHistoryWithAutoTrim(newHistory, storage, 1)
            IN  /\ stored' = IF IsNull(r.written) THEN stored ELSE The(r.written)
                /\ writeLog' = r.log
                /\ error' = IF ReportedTooLarge(r.log) THEN Some("errorHistoryTooLarge")
                             ELSE handlerError
       ELSE /\ UNCHANGED storageVars
            /\ error' = handlerError

\* a handler that does not call setCarouselHistory
KeepHistory == UNCHANGED <<carouselHistory, stored, writeLog>>

----------------------------------------------------------------------------
(* The session manager's pure parts. *)

\* line 831-832: prev.slides.map(s => s.id === slideId ? { ...s, ...updates } : s)
UpdateSlideIn(carousel, slideId, updates) ==
    [carousel EXCEPT !.slides =
        [i \in 1..Len(carousel.slides) |->
            IF carousel.slides[i].id = slideId
            THEN Spread(carousel.slides[i], updates)
            ELSE carousel.slides[i]]]

\* a write-back that also moves the entry to the front of the list: what
\* lines 834-842 must not do
WriteBackToFront(history, carousel) ==
    IF FindIndexById(history, carousel.id) # 0
    THEN <<carousel>> \o SelectSeq(history, LAMBDA c : c.id # carousel.id)
    ELSE history

\* the write-back without its existence check: a carousel that has no entry
\* is put in front
WriteBackOrAdd(history, carousel) ==
    IF FindIndexById(history, carousel.id) # 0
    THEN [history EXCEPT ![FindIndexById(history, carousel.id)] = carousel]
    ELSE <<carousel>> \o history

\* lines 834-842 (also 443-451, 583-591, 868-876): the write-back by id
WriteBack(history, carousel) ==
    LET index == FindIndexById(history, carousel.id)
    IN  IF index # 0 THEN [history EXCEPT ![index] = carousel] ELSE history

\* whether the write-back's updater returns a new array
WritesBack(history, carousel) == FindIndexById(history, carousel.id) # 0

\* line 953 done as two assignments in turn instead of one destructuring
\* assignment: slides[index] = slides[newIndex]; slides[newIndex] = slides[index]
MoveSlidesInTurn(slides, slideId, direction) ==
    LET index == FindIndexById(slides, slideId)
        newIndex == IF direction = "left" THEN index - 1 ELSE index + 1
    IN  IF index = 0 THEN slides
        ELSE IF newIndex < 1 \/ newIndex > Len(slides) THEN slides
        ELSE [slides EXCEPT ![index] = slides[newIndex]]

\* lines 946-953: the slides after handleMoveSlide; the array itself when
\* the handler returns early
MoveSlides(slides, slideId, direction) ==
    LET index == FindIndexById(slides, slideId)
        newIndex == IF direction = "left" THEN index - 1 ELSE index + 1
    IN  IF index = 0 THEN slides
        ELSE IF newIndex < 1 \/ newIndex > Len(slides) THEN slides
        ELSE LET pair == <<slides[newIndex], slides[index]>>
             IN  [[slides EXCEPT ![index] = pair[1]] EXCEPT ![newIndex] = pair[2]]

\* whether handleMoveSlide reaches setCurrentCarousel (line 954)
MoveApplies(slides, slideId, direction) ==
    LET index == FindIndexById(slides, slideId)
        newIndex == IF direction = "left" THEN index - 1 ELSE index + 1
    IN  index # 0 /\ newIndex >= 1 /\ newIndex <= Len(slides)

\* line 867 without the spread of prev.preferences: { ...prev, preferences: updates }
ReplacePreferencesIn(carousel, updates) ==
    [carousel EXCEPT !.preferences = updates]

\* line 867: { ...prev, preferences: { ...prev.preferences, ...updates } }
UpdatePreferencesIn(carousel, updates) ==
    [carousel EXCEPT !.preferences = Spread(carousel.preferences, updates)]

\* lines 879-903: the placeholder made when there is no current carousel
Placeholder(updates, topicValue, u, n, now) ==
    [id |-> TempId(n),
     title |-> topicValue,
     createdAt |-> now,
     slides |-> <<>>,
     category |-> IF ~IsNull(u) /\ Len(The(u).niche) > 0 THEN The(u).niche[1] ELSE "General",
     preferences |->
        Spread([backgroundColor |-> Str("#FFFFFF"), fontColor |-> Str("#111827"), font |-> Str("Inter"),
                aspectRatio |-> Str("1:1"), backgroundImage |-> Undefined, brandingText |-> Str(""),
                brandingStyle |-> Str("bs0"), headlineStyle |-> Str("hs0"), bodyStyle |-> Str("ys0")],
               updates)]

\* lines 910-915: every slide without the property
ClearOverridesIn(carousel, property) ==
    [carousel EXCEPT !.slides =
        [i \in 1..Len(carousel.slides) |-> DeleteKey(carousel.slides[i], property)]]

\* lines 926-938: the updates handleApplyBrandKit passes on
BrandKitUpdates(cur) ==
    [backgroundColor |-> BrandKit.primary,
     fontColor |-> BrandKit.text,
     font |-> BrandKit.body,
     brandingText |-> BrandKit.brandingText,
     brandingStyle |-> BrandKit.brandingStyle,
     headlineStyle |-> IF IsNull(cur) THEN Str("{}") ELSE Get(The(cur).preferences, "headlineStyle"),
     bodyStyle |-> IF IsNull(cur) THEN Str("{}") ELSE Get(The(cur).preferences, "bodyStyle")]

----------------------------------------------------------------------------
(* The synchronous handlers. A handler is reachable when the component it *)
(* is passed to is rendered (lines 982-1057): the Dashboard's in view      *)
(* DASHBOARD, the Generator's in view GENERATOR, the Header's whenever a   *)
(* user is set and the view is not LOGIN.                                  *)

\* lines 828-846, as the updaters run on the state at hand; handlerError is
\* what the caller leaves in the error state
ApplyUpdateSlide(slideId, updates, handlerError, storage) ==
    IF IsNull(currentCarousel)
    THEN /\ currentCarousel' = Null
         /\ KeepHistory
         /\ error' = handlerError
    ELSE LET newCarousel == UpdateSlideIn(The(currentCarousel), slideId, updates)
         IN  /\ currentCarousel' = Some(newCarousel)
             /\ CommitHistory(WriteBack(carouselHistory, newCarousel),
                              WritesBack(carouselHistory, newCarousel),
                              handlerError, storage)

\* lines 828-846, called by the Generator (onUpdateSlide), and lines 848-862
handleUpdateSlide(slideId, updates, storage) ==
    /\ view = "GENERATOR"
    /\ ApplyUpdateSlide(slideId, updates, error, storage)
    /\ UNCHANGED <<view, selectedSlideId, currentTopic, busyVars, asyncVars, envVars>>

\* lines 944-955
handleMoveSlide(slideId, direction) ==
    /\ view = "GENERATOR"
    /\ IF IsNull(currentCarousel)
       THEN UNCHANGED currentCarousel
       ELSE IF MoveApplies(The(currentCarousel).slides, slideId, direction)
            THEN currentCarousel' =
                    Some([The(currentCarousel) EXCEPT
                            !.slides = MoveSlides(The(currentCarousel).slides, slideId, direction)])
            ELSE UNCHANGED currentCarousel
    /\ KeepHistory
    /\ UNCHANGED <<view, selectedSlideId, currentTopic, error, busyVars, asyncVars, envVars>>

\* lines 864-905, as the updater runs on the state at hand
ApplyUpdatePreferences(cur, history, updates, topicValue) ==
    IF ~IsNull(cur)
    THEN LET newCarousel == UpdatePreferencesIn(The(cur), updates)
         IN  [current |-> Some(newCarousel),
              history |-> WriteBack(history, newCarousel),
              newArray |-> WritesBack(history, newCarousel),
              uuids |-> 0]
    ELSE [current |-> Some(Placeholder(updates, topicValue, user, uuid + 1, clock)),
          history |-> history,
          newArray |-> FALSE,
          uuids |-> 1]

\* the crypto.randomUUID() results one run can use
MaxUuid == MaxCarousels * (MaxSlides + 1) + 1

\* lines 864-905, called by the Generator (onUpdateCarouselPreferences)
handleUpdateCarouselPreferences(updates, topicValue, storage) ==
    /\ view = "GENERATOR"
    /\ IsNull(currentCarousel) => uuid < MaxUuid
    /\ LET r == ApplyUpdatePreferences(currentCarousel, carouselHistory, updates, topicValue)
       IN  /\ currentCarousel' = r.current
           /\ CommitHistory(r.history, r.newArray, error, storage)
           /\ uuid' = uuid + r.uuids
    /\ UNCHANGED <<view, selectedSlideId, currentTopic, busyVars, asyncVars, user, apiKey, clock,
                   authVars, navVars, exportVars>>

\* lines 907-917
ApplyClearSlideOverrides(cur, property) ==
    IF IsNull(cur) THEN Null ELSE Some(ClearOverridesIn(The(cur), property))

\* lines 907-917, called by the Generator (onClearSlideOverrides)
handleClearSlideOverrides(property) ==
    /\ view = "GENERATOR"
    /\ currentCarousel' = ApplyClearSlideOverrides(currentCarousel, property)
    /\ KeepHistory
    /\ UNCHANGED <<view, selectedSlideId, currentTopic, error, busyVars, asyncVars, envVars>>

\* lines 919-942: the preferences update, then the two clears, queued in order
handleApplyBrandKit(storage) ==
    /\ view = "GENERATOR"
    /\ IsNull(currentCarousel) => uuid < MaxUuid
    /\ LET r == ApplyUpdatePreferences(currentCarousel, carouselHistory,
                                       BrandKitUpdates(currentCarousel), currentTopic)
       IN  /\ currentCarousel' =
                 ApplyClearSlideOverrides(
                     ApplyClearSlideOverrides(r.current, "backgroundColor"), "fontColor")
           /\ CommitHistory(r.history, r.newArray, error, storage)
           /\ uuid' = uuid + r.uuids
    /\ UNCHANGED <<view, selectedSlideId, currentTopic, busyVars, asyncVars, user, apiKey, clock,
                   authVars, navVars, exportVars>>

\* lines 439-455, called by the Header (onDashboard) and the MobileFooter
goToDashboard(storage) ==
    /\ ~IsNull(user)
    /\ view # "LOGIN"
    /\ IF view = "PROFILE_SETUP"
       THEN UNCHANGED <<view, currentCarousel, carouselHistory, stored, writeLog, error>>
       ELSE /\ IF ~IsNull(currentCarousel)
               THEN CommitHistory(WriteBack(carouselHistory, The(currentCarousel)),
                                  WritesBack(carouselHistory, The(currentCarousel)),
                                  error, storage)
               ELSE KeepHistory /\ UNCHANGED error
            /\ currentCarousel' = Null
            /\ view' = "DASHBOARD"
    /\ UNCHANGED <<selectedSlideId, currentTopic, busyVars, asyncVars, envVars>>

\* lines 457-461, called by the Dashboard (onNewCarousel)
startNewCarousel ==
    /\ view = "DASHBOARD"
    /\ currentCarousel' = Null
    /\ selectedSlideId' = Null
    /\ view' = "GENERATOR"
    /\ KeepHistory
    /\ UNCHANGED <<currentTopic, error, busyVars, asyncVars, envVars>>

\* lines 463-471, called by the Dashboard (onEdit)
handleEditCarousel(carouselId) ==
    /\ view = "DASHBOARD"
    /\ IF InHistory(carouselHistory, carouselId)
       THEN LET carouselToEdit == EntryOf(carouselHistory, carouselId)
            IN  /\ currentCarousel' = Some(carouselToEdit)
                /\ currentTopic' = carouselToEdit.title
                /\ selectedSlideId' = IF Len(carouselToEdit.slides) > 0
                                       THEN Some(carouselToEdit.slides[1].id) ELSE Null
                /\ view' = "GENERATOR"
       ELSE UNCHANGED <<currentCarousel, currentTopic, selectedSlideId, view>>
    /\ KeepHistory
    /\ UNCHANGED <<error, busyVars, asyncVars, envVars>>

\* lines 473-477, called by the Dashboard (onDelete); confirmed: window.confirm
handleDeleteCarousel(carouselId, confirmed, storage) ==
    /\ view = "DASHBOARD"
    /\ IF confirmed
       THEN CommitHistory(SelectSeq(carouselHistory, LAMBDA c : c.id # carouselId),
                          TRUE, error, storage)
       ELSE KeepHistory /\ UNCHANGED error
    /\ UNCHANGED <<view, currentCarousel, selectedSlideId, currentTopic, busyVars,
                   asyncVars, envVars>>

\* lines 479-483, called by the Dashboard (onClearHistory)
handleClearHistory(confirmed, storage) ==
    /\ view = "DASHBOARD"
    /\ IF confirmed
       THEN CommitHistory(<<>>, TRUE, error, storage)
       ELSE KeepHistory /\ UNCHANGED error
    /\ UNCHANGED <<view, currentCarousel, selectedSlideId, currentTopic, busyVars,
                   asyncVars, envVars>>

----------------------------------------------------------------------------
(* The error classifier and the backend's results. *)

\* the errors a generation function can reject with, by what
\* parseAndDisplayError tells apart in error.message
BackendErrors ==
    {"api key is not configured", "api key not valid", "Requested entity was not found.",
     "unrecognized"}

\* error.message values that are the text of a JSON object
QuotaJson ==
    "{\"error\":{\"code\":429,\"status\":\"RESOURCE_EXHAUSTED\",\"message\":\"Quota exceeded\"}}"
QuotaHelpJson ==
    "{\"error\":{\"code\":429,\"message\":\"Quota exceeded\",\"details\":[{\"@type\":\"type.googleapis.com/google.rpc.Help\",\"links\":[{\"url\":\"https://help\"}]}]}}"
ExhaustedJson == "{\"error\":{\"code\":503,\"status\":\"RESOURCE_EXHAUSTED\"}}"
InvalidKeyJson ==
    "{\"error\":{\"code\":400,\"status\":\"INVALID_ARGUMENT\",\"message\":\"API key not valid. Please pass a valid API key.\"}}"
DeniedJson ==
    "{\"error\":{\"code\":403,\"status\":\"PERMISSION_DENIED\",\"message\":\"Permission denied\"}}"
NotConfiguredJson == "{\"error\":{\"code\":400,\"message\":\"API key is not configured\"}}"
InternalJson == "{\"error\":{\"code\":500,\"status\":\"INTERNAL\",\"message\":\"Internal error\"}}"
BareJson == "{\"error\":{\"code\":500}}"
NoErrorJson == "{\"message\":\"API key not valid\"}"
NotJson == "{not json}"

\* error.message values of the model: "" stands for an error without message
ErrorMessages ==
    BackendErrors \cup
    {"", "API key not valid", "PERMISSION DENIED", "API key is not configured",
     "AI did not return an image from your prompt.",
     "ai did not return an image from your prompt.",
     "Quota exceeded (429 RESOURCE_EXHAUSTED)", "Network error",
     QuotaJson, QuotaHelpJson, ExhaustedJson, InvalidKeyJson, DeniedJson, NotConfiguredJson,
     InternalJson, BareJson, NoErrorJson, NotJson}

\* errorMessage.startsWith('{') && errorMessage.endsWith('}')
IsBraced(msg) ==
    msg \in {QuotaJson, QuotaHelpJson, ExhaustedJson, InvalidKeyJson, DeniedJson,
             NotConfiguredJson, InternalJson, BareJson, NoErrorJson, NotJson}

\* JSON.parse(errorMessage).error: <<>> when JSON.parse throws or the object
\* has no error property; code 0, status "", message "" and link "" stand
\* for a property that is missing (link: details' Help link, lines 284-285)
ErrorObject(msg) ==
    CASE msg = QuotaJson ->
            Some([code |-> 429, status |-> "RESOURCE_EXHAUSTED", message |-> "Quota exceeded",
                  link |-> ""])
      [] msg = QuotaHelpJson ->
            Some([code |-> 429, status |-> "", message |-> "Quota exceeded",
                  link |-> "https://help"])
      [] msg = ExhaustedJson ->
            Some([code |-> 503, status |-> "RESOURCE_EXHAUSTED", message |-> "", link |-> ""])
      [] msg = InvalidKeyJson ->
            Some([code |-> 400, status |-> "INVALID_ARGUMENT",
                  message |-> "API key not valid. Please pass a valid API key.", link |-> ""])
      [] msg = DeniedJson ->
            Some([code |-> 403, status |-> "PERMISSION_DENIED", message |-> "Permission denied",
                  link |-> ""])
      [] msg = NotConfiguredJson ->
            Some([code |-> 400, status |-> "", message |-> "API key is not configured",
                  link |-> ""])
      [] msg = InternalJson ->
            Some([code |-> 500, status |-> "INTERNAL", message |-> "Internal error", link |-> ""])
      [] msg = BareJson ->
            Some([code |-> 500, status |-> "", message |-> "", link |-> ""])
      [] OTHER -> Null

\* str.toLowerCase().includes(phrase), for the phrases of lines 291 and 307-311
LowerIncludes(str, phrase) ==
    CASE phrase = "api key not valid" ->
            str \in {"api key not valid", "API key not valid",
                     "API key not valid. Please pass a valid API key.", InvalidKeyJson,
                     NoErrorJson}
      [] phrase = "permission denied" ->
            str \in {"PERMISSION DENIED", "Permission denied", DeniedJson}
      [] phrase = "api key is not configured" ->
            str \in {"api key is not configured", "API key is not configured",
                     NotConfiguredJson}
      [] OTHER -> FALSE

\* str.includes(phrase), for the phrases of lines 314 and 697
Includes(str, phrase) ==
    CASE phrase = "AI did not return an image from your prompt." ->
            str = "AI did not return an image from your prompt."
      [] phrase = "Requested entity was not found." ->
            str = "Requested entity was not found."
      [] OTHER -> FALSE

\* t(key), and t('errorQuotaExceeded', { link }): the text of the language
\* in use, named by its key and parameter
T(key) == key
QuotaExceededText(link) ==
    IF link = "https://help" THEN "errorQuotaExceeded{https://help}"
    ELSE "errorQuotaExceeded{https://ai.google.dev/gemini-api/docs/rate-limits}"

\* lines 276-302: the result of the structured case, <<>> when the code
\* falls through to the substring checks
StructuredResult(errorMessage) ==
    IF IsBraced(errorMessage) /\ ~IsNull(ErrorObject(errorMessage))
    THEN LET e == The(ErrorObject(errorMessage))
         IN  IF e.code = 429 \/ e.status = "RESOURCE_EXHAUSTED"
             THEN Some(QuotaExceededText(e.link))
             ELSE IF e.code = 400 /\ (\/ LowerIncludes(e.message, "api key not valid")
                                      \/ LowerIncludes(e.message, "permission denied"))
             THEN Some(T("errorInvalidApiKey"))
             ELSE Some(IF e.message # "" THEN e.message ELSE errorMessage)
    ELSE Null

\* lines 304-319: the substring checks
SubstringResult(errorMessage) ==
    IF \/ LowerIncludes(errorMessage, "api key not valid")
       \/ LowerIncludes(errorMessage, "permission denied")
    THEN T("errorInvalidApiKey")
    ELSE IF LowerIncludes(errorMessage, "api key is not configured")
    THEN T("errorApiKeyNotConfigured")
    ELSE IF Includes(errorMessage, "AI did not return an image from your prompt.")
    THEN T("errorImageGen")
    ELSE errorMessage

\* lines 274-320 without the structured case of lines 277-302
ParseSubstringsOnly(err) ==
    Some(SubstringResult(IF err # "" THEN err ELSE T("errorUnknown")))

\* lines 274-320; err is error.message; the result is what setError receives
parseAndDisplayError(err) ==
    LET errorMessage == IF err # "" THEN err ELSE T("errorUnknown")
    IN  IF ~IsNull(StructuredResult(errorMessage))
        THEN StructuredResult(errorMessage)
        ELSE Some(SubstringResult(errorMessage))

\* what the n-th slide's generateImage / editImage / generateVideo /
\* regenerateSlideContent call resolves to
GeneratedImage(slide) == ImagePayload(slide.visual_prompt[2])
EditedImage(slide) == ImagePayload(slide.visual_prompt[2] + 10)
GeneratedVideos(slide) == {VideoPayload(slide.visual_prompt[2]), VideoLink(slide.visual_prompt[2])}
RegeneratedText(part) == Str(IF part = "headline" THEN "h2" ELSE "b2")

----------------------------------------------------------------------------
(* The asynchronous handlers: one action up to each await, one for each    *)
(* way the awaited call can settle. A suspended handler is an element of   *)
(* tasks; it keeps the values its closure captured.                        *)

RemoveAt(s, i) == [j \in 1..(Len(s) - 1) |-> IF j < i THEN s[j] ELSE s[j + 1]]

\* carousels this run has created or is about to create
CarouselsInPlay ==
    clock + Cardinality({i \in 1..Len(tasks) : tasks[i].kind = "carousel" /\ tasks[i].pc = "content"})

\* lines 487-490 at iteration i: the calls the loop has outstanding
LoopCalls(carousel, i) == IF i <= Len(carousel.slides) THEN {i} ELSE {}

\* lines 487-492: the loop of executeImageGenerationForAllSlides arriving at
\* iteration i (1-based) with updatedCarousel = updated
LoopTask(kind, carousel, updated, i, results, key) ==
    [kind |-> kind, pc |-> "images", carousel |-> carousel, updated |-> updated,
     i |-> i, results |-> results, calls |-> LoopCalls(carousel, i), key |-> key]

\* lines 494-496 with the new slides made from carousel.slides instead of
\* updatedCarousel.slides: the images of the earlier iterations are lost
WithImageOnCarousel(carousel, updated, i, imageUrl) ==
    [updated EXCEPT !.slides =
        [j \in 1..Len(carousel.slides) |->
            IF j = i
            THEN Spread(carousel.slides[j], [backgroundImage |-> imageUrl])
            ELSE carousel.slides[j]]]

\* lines 494-496: updatedCarousel after slide i's image arrived
WithImage(carousel, updated, i, imageUrl) ==
    [updated EXCEPT !.slides =
        [j \in 1..Len(updated.slides) |->
            IF updated.slides[j].id = carousel.slides[i].id
            THEN Spread(updated.slides[j], [backgroundImage |-> imageUrl])
            ELSE updated.slides[j]]]

\* [...prev, carousel]: the carousel added at the end of the list
AppendLast(carousel, prev) == prev \o <<carousel>>

\* lines 544 and 546: [carousel, ...prev]
Prepend(carousel, prev) == <<carousel>> \o prev

\* handleGenerateCarousel without the guards of lines 508-513
GenerateUnguarded(topic, niche, preferences, magicCreate) ==
    /\ view = "GENERATOR"
    /\ Len(tasks) < MaxTasks
    /\ CarouselsInPlay < MaxCarousels
    /\ isGenerating' = TRUE
    /\ error' = Null
    /\ currentCarousel' = Null
    /\ currentTopic' = topic
    /\ generationMessage' = <<"generatingContentMessage">>
    /\ tasks' = Append(tasks,
           [kind |-> "carousel", pc |-> "content", topic |-> topic,
            category |-> IF niche # "" \/ IsNull(user) THEN niche
                         ELSE NicheToUse(niche, The(user)),
            preferences |-> preferences, magicCreate |-> magicCreate,
            calls |-> {0}, key |-> apiKey])
    /\ KeepHistory
    /\ UNCHANGED <<view, selectedSlideId, isGeneratingImageForSlide,
                   isGeneratingVideoForSlide, regeneratingPart, envVars>>

\* lines 508-526: handleGenerateCarousel up to the await of the content call
handleGenerateCarousel(topic, niche, preferences, magicCreate) ==
    /\ view = "GENERATOR"
    /\ Len(tasks) < MaxTasks
    /\ CarouselsInPlay < MaxCarousels
    /\ IF IsNull(user)
       THEN UNCHANGED <<isGenerating, error, currentCarousel, currentTopic,
                        generationMessage, tasks>>
       ELSE IF apiKey = ""
            THEN /\ error' = Some("errorApiKeyNotConfigured")
                 /\ UNCHANGED <<isGenerating, currentCarousel, currentTopic,
                                generationMessage, tasks>>
            ELSE /\ isGenerating' = TRUE
                 /\ error' = Null
                 /\ currentCarousel' = Null
                 /\ currentTopic' = topic
                 /\ generationMessage' = <<"generatingContentMessage">>
                 /\ tasks' = Append(tasks,
                        [kind |-> "carousel", pc |-> "content", topic |-> topic,
                         category |-> NicheToUse(niche, The(user)),
                         preferences |-> preferences, magicCreate |-> magicCreate,
                         calls |-> {0}, key |-> apiKey])
    /\ KeepHistory
    /\ UNCHANGED <<view, selectedSlideId, isGeneratingImageForSlide,
                   isGeneratingVideoForSlide, regeneratingPart, envVars>>

\* a finally block that leaves isGenerating as it is
BulkEndsBusy(t) ==
    /\ UNCHANGED isGenerating
    /\ generationMessage' = <<>>
    /\ isGeneratingImageForSlide' = Null
    /\ tasks' = RemoveAt(tasks, t)

\* lines 551-555 and 594-598: the finally block of the two bulk handlers
BulkFinally(t) ==
    /\ isGenerating' = FALSE
    /\ generationMessage' = <<>>
    /\ isGeneratingImageForSlide' = Null
    /\ tasks' = RemoveAt(tasks, t)

\* lines 489-490: the indicators of iteration i
LoopIndicators(carousel, i) ==
    /\ generationMessage' = <<"generatingImageMessage", i, Len(carousel.slides)>>
    /\ isGeneratingImageForSlide' = Some(carousel.slides[i].id)

\* the content call resolved and its result abandoned: the finally block
\* alone
contentDropped(t, nSlides, storage) ==
    /\ t \in 1..Len(tasks)
    /\ tasks[t].kind = "carousel" /\ tasks[t].pc = "content"
    /\ BulkFinally(t)
    /\ KeepHistory
    /\ UNCHANGED <<view, currentCarousel, selectedSlideId, currentTopic, error,
                   isGeneratingVideoForSlide, regeneratingPart, envVars>>

\* lines 526-547: the content call resolved with nSlides slides
contentResolved(t, nSlides, storage) ==
    /\ t \in 1..Len(tasks)
    /\ tasks[t].kind = "carousel" /\ tasks[t].pc = "content"
    /\ LET newCarousel == NewCarousel(tasks[t].topic, tasks[t].category, tasks[t].preferences,
                                      nSlides, uuid + 1, clock + 1)
       IN  /\ uuid' = uuid + nSlides + 1
           /\ clock' = clock + 1
           /\ currentCarousel' = Some(newCarousel)
           /\ selectedSlideId' = IF nSlides > 0 THEN Some(newCarousel.slides[1].id) ELSE Null
           /\ IF tasks[t].magicCreate /\ nSlides > 0
              THEN /\ tasks' = [tasks EXCEPT ![t] =
                                  LoopTask("carousel", newCarousel, newCarousel, 1, <<>>,
                                           tasks[t].key)]
                   /\ LoopIndicators(newCarousel, 1)
                   /\ KeepHistory
                   /\ UNCHANGED <<isGenerating, error>>
              ELSE /\ CommitHistory(Prepend(newCarousel, carouselHistory), TRUE, error, storage)
                   /\ BulkFinally(t)
    /\ UNCHANGED <<view, currentTopic, isGeneratingVideoForSlide, regeneratingPart,
                   user, apiKey, authVars, navVars, exportVars>>

\* the content call rejected with no catch block around it: the finally
\* block runs and the rejection leaves the handler
contentUncaught(t, err) ==
    /\ t \in 1..Len(tasks)
    /\ tasks[t].kind = "carousel" /\ tasks[t].pc = "content"
    /\ BulkFinally(t)
    /\ KeepHistory
    /\ UNCHANGED <<view, currentCarousel, selectedSlideId, currentTopic, error,
                   isGeneratingVideoForSlide, regeneratingPart, envVars>>

\* lines 549-555: the content call rejected
contentRejected(t, err) ==
    /\ t \in 1..Len(tasks)
    /\ tasks[t].kind = "carousel" /\ tasks[t].pc = "content"
    /\ error' = parseAndDisplayError(err)
    /\ BulkFinally(t)
    /\ KeepHistory
    /\ UNCHANGED <<view, currentCarousel, selectedSlideId, currentTopic,
                   isGeneratingVideoForSlide, regeneratingPart, envVars>>

\* lines 576-581: handleGenerateAllImages up to the first generateImage call
handleGenerateAllImages(storage) ==
    /\ view = "GENERATOR"
    /\ Len(tasks) < MaxTasks
    /\ ~IsNull(currentCarousel)
    /\ LET carousel == The(currentCarousel)
       IN  IF Len(carousel.slides) > 0
           THEN /\ isGenerating' = TRUE
                /\ tasks' = Append(tasks, LoopTask("allImages", carousel, carousel, 1, <<>>, apiKey))
                /\ LoopIndicators(carousel, 1)
                /\ error' = Null
                /\ KeepHistory
           ELSE \* no slide: the loop body never runs, lines 583-598 follow
                /\ CommitHistory(WriteBack(carouselHistory, carousel),
                                 WritesBack(carouselHistory, carousel), Null, storage)
                /\ isGenerating' = FALSE
                /\ generationMessage' = <<>>
                /\ isGeneratingImageForSlide' = Null
                /\ UNCHANGED tasks
    /\ UNCHANGED <<view, currentCarousel, selectedSlideId, currentTopic,
                   isGeneratingVideoForSlide, regeneratingPart, envVars>>

\* lines 492-504, then 544 or 583-591, then the finally block: the image
\* call of iteration i settled (resolved: it returned an image)
imageSettled(t, resolved, storage) ==
    /\ t \in 1..Len(tasks)
    /\ tasks[t].pc = "images"
    /\ tasks[t].i \in tasks[t].calls
    /\ LET task == tasks[t]
           carousel == task.carousel
           slide == carousel.slides[task.i]
           updated == IF resolved
                      THEN WithImage(carousel, task.updated, task.i, GeneratedImage(slide))
                      ELSE task.updated
           results == Append(task.results, resolved)
       IN  /\ currentCarousel' = IF resolved THEN Some(updated) ELSE currentCarousel
           /\ IF task.i < Len(carousel.slides)
              THEN /\ tasks' = [tasks EXCEPT ![t] =
                                  LoopTask(task.kind, carousel, updated, task.i + 1, results,
                                           task.key)]
                   /\ LoopIndicators(carousel, task.i + 1)
                   /\ KeepHistory
                   /\ UNCHANGED <<isGenerating, error>>
              ELSE /\ IF task.kind = "carousel"
                      THEN CommitHistory(Prepend(updated, carouselHistory), TRUE, error, storage)
                      ELSE CommitHistory(WriteBack(carouselHistory, updated),
                                         WritesBack(carouselHistory, updated), error, storage)
                   /\ BulkFinally(t)
    /\ UNCHANGED <<view, selectedSlideId, currentTopic, isGeneratingVideoForSlide,
                   regeneratingPart, envVars>>

\* currentCarousel.slides.find(s => s.id === slideId), as <<>> or <<slide>>
FindSlide(cur, slideId) ==
    IF IsNull(cur) \/ FindIndexById(The(cur).slides, slideId) = 0
    THEN Null
    ELSE Some(The(cur).slides[FindIndexById(The(cur).slides, slideId)])

\* a single-slide handler suspended at its generation call
SlideTask(kind, slideId, slide, part, key) ==
    [kind |-> kind, pc |-> "call", slideId |-> slideId, slide |-> slide, part |-> part,
     calls |-> {1}, key |-> key]

\* lines 558-567: handleGenerateImageForSlide up to the await
handleGenerateImageForSlide(slideId) ==
    /\ view = "GENERATOR"
    /\ Len(tasks) < MaxTasks
    /\ ~IsNull(FindSlide(currentCarousel, slideId))
    /\ isGeneratingImageForSlide' = Some(slideId)
    /\ error' = Null
    /\ tasks' = Append(tasks, SlideTask("image", slideId,
                                        The(FindSlide(currentCarousel, slideId)), "", apiKey))
    /\ KeepHistory
    /\ UNCHANGED <<view, currentCarousel, selectedSlideId, currentTopic, isGenerating,
                   isGeneratingVideoForSlide, generationMessage, regeneratingPart, envVars>>

\* lines 601-616: handleRegenerateContent up to the await
handleRegenerateContent(slideId, part) ==
    /\ view = "GENERATOR"
    /\ Len(tasks) < MaxTasks
    /\ ~IsNull(FindSlide(currentCarousel, slideId))
    /\ IsNull(regeneratingPart)
    /\ IF apiKey = ""
       THEN /\ error' = Some("errorApiKeyNotConfigured")
            /\ UNCHANGED <<regeneratingPart, tasks>>
       ELSE /\ regeneratingPart' = Some([slideId |-> slideId, part |-> part])
            /\ error' = Null
            /\ tasks' = Append(tasks, SlideTask("regenerate", slideId,
                                                The(FindSlide(currentCarousel, slideId)),
                                                part, apiKey))
    /\ KeepHistory
    /\ UNCHANGED <<view, currentCarousel, selectedSlideId, currentTopic, isGenerating,
                   isGeneratingImageForSlide, isGeneratingVideoForSlide, generationMessage,
                   envVars>>

\* lines 674-680: handleGenerateVideoForSlide up to the await of the
\* AI Studio helper
handleGenerateVideoForSlide(slideId) ==
    /\ view = "GENERATOR"
    /\ Len(tasks) < MaxTasks
    /\ ~IsNull(FindSlide(currentCarousel, slideId))
    /\ tasks' = Append(tasks,
                       [SlideTask("video", slideId, The(FindSlide(currentCarousel, slideId)),
                                  "", apiKey)
                        EXCEPT !.pc = "aistudio", !.calls = {}])
    /\ KeepHistory
    /\ UNCHANGED <<view, currentCarousel, selectedSlideId, currentTopic, error, busyVars,
                   envVars>>

\* lines 681-693: the helper settled (hasSelectedApiKey / openSelectKey
\* returned or threw); the handler goes on to the generateVideo call
videoKeyChecked(t) ==
    /\ t \in 1..Len(tasks)
    /\ tasks[t].kind = "video" /\ tasks[t].pc = "aistudio"
    /\ isGeneratingVideoForSlide' = Some(tasks[t].slideId)
    /\ generationMessage' = <<"generatingVideoMessage">>
    /\ error' = Null
    /\ tasks' = [tasks EXCEPT ![t].pc = "call", ![t].calls = {1}]
    /\ KeepHistory
    /\ UNCHANGED <<view, currentCarousel, selectedSlideId, currentTopic, isGenerating,
                   isGeneratingImageForSlide, regeneratingPart, envVars>>

\* lines 708-719: handleEditImageForSlide up to the await
handleEditImageForSlide(slideId, editPrompt) ==
    /\ view = "GENERATOR"
    /\ Len(tasks) < MaxTasks
    /\ ~IsNull(currentCarousel) /\ editPrompt # ""
    /\ ~IsNull(FindSlide(currentCarousel, slideId))
    /\ LET slide == The(FindSlide(currentCarousel, slideId))
       IN  /\ Get(slide, "backgroundImage") # Undefined
           /\ StartsWith(slide.backgroundImage, DataImagePrefix)
           /\ tasks' = Append(tasks, SlideTask("edit", slideId, slide, "", apiKey))
    /\ isGeneratingImageForSlide' = Some(slideId)
    /\ error' = Null
    /\ KeepHistory
    /\ UNCHANGED <<view, currentCarousel, selectedSlideId, currentTopic, isGenerating,
                   isGeneratingVideoForSlide, generationMessage, regeneratingPart, envVars>>

\* handleUpdateSlide's argument at lines 568, 617, 694, 720
SlideResults(task) ==
    CASE task.kind = "image" -> {[backgroundImage |-> GeneratedImage(task.slide)]}
      [] task.kind = "edit" -> {[backgroundImage |-> EditedImage(task.slide)]}
      [] task.kind = "video" -> {[backgroundImage |-> v] : v \in GeneratedVideos(task.slide)}
      [] task.kind = "regenerate" -> {[k \in {task.part} |-> RegeneratedText(task.part)]}
      [] OTHER -> {}

\* the finally blocks of lines 571-573, 620-622, 702-705, 723-725
SlideFinally(t) ==
    /\ tasks' = RemoveAt(tasks, t)
    /\ isGeneratingImageForSlide' =
          IF tasks[t].kind \in {"image", "edit"} THEN Null ELSE isGeneratingImageForSlide
    /\ regeneratingPart' = IF tasks[t].kind = "regenerate" THEN Null ELSE regeneratingPart
    /\ isGeneratingVideoForSlide' =
          IF tasks[t].kind = "video" THEN Null ELSE isGeneratingVideoForSlide
    /\ generationMessage' = IF tasks[t].kind = "video" THEN <<>> ELSE generationMessage

\* lines 567-568, 616-617, 693-694, 719-720: the call resolved
slideCallResolved(t, updates, storage) ==
    /\ t \in 1..Len(tasks)
    /\ tasks[t].pc = "call"
    /\ updates \in SlideResults(tasks[t])
    /\ ApplyUpdateSlide(tasks[t].slideId, updates, error, storage)
    /\ SlideFinally(t)
    /\ UNCHANGED <<view, selectedSlideId, currentTopic, isGenerating, envVars>>

\* lines 569-570, 618-619, 695-701, 721-722: the call rejected
slideCallRejected(t, err) ==
    /\ t \in 1..Len(tasks)
    /\ tasks[t].pc = "call"
    /\ error' = IF /\ tasks[t].kind = "video"
                   /\ Includes(The(parseAndDisplayError(err)), "Requested entity was not found.")
                THEN Some(T("errorVeoKeyNotFound"))
                ELSE parseAndDisplayError(err)
    /\ SlideFinally(t)
    /\ KeepHistory
    /\ UNCHANGED <<view, currentCarousel, selectedSlideId, currentTopic, isGenerating,
                   envVars>>

----------------------------------------------------------------------------
(* Authentication: the onAuthStateChange listener (lines 154-220) and      *)
(* handleProfileSetup (lines 408-437). The auth client and the profiles    *)
(* table are the backend; a handler suspended at a backend call is a task. *)

\* the state the auth handlers leave alone
appVars == <<sessionVars, error, storageVars, busyVars, apiKey, uuid, clock, navVars,
             exportVars>>

\* lines 167-173, the fields of the profile the model keeps
UserOfRow(row) == [niche |-> row.niche, profileComplete |-> row.profile_complete]

\* the view of a profile by its completeness flag alone
LandingViewByFlag(userProfile) ==
    IF userProfile.profileComplete THEN "DASHBOARD" ELSE "PROFILE_SETUP"

\* line 175
LandingView(userProfile) ==
    IF userProfile.profileComplete /\ Len(userProfile.niche) > 0
    THEN "DASHBOARD" ELSE "PROFILE_SETUP"

\* lines 159-163: what the lookup can resolve with: the row, the not-found
\* error (code PGRST116) when there is no row, another error, or neither a
\* row nor an error
LookupResults(row) ==
    (IF IsNull(row) THEN {"PGRST116"} ELSE {"row"}) \cup {"error", "nothing"}

\* line 187: the insert succeeds only when the table has no row of the user
InsertResults(row) == IF IsNull(row) THEN {TRUE, FALSE} ELSE {FALSE}

\* lines 196-202 and line 184: the profile of a new user
NewUserProfile == [niche |-> <<>>, profileComplete |-> FALSE]
NewRow == [niche |-> <<>>, profile_complete |-> FALSE]

\* a suspended auth handler: the listener ("session") or handleProfileSetup
AuthTask(kind, pc, niche) == [kind |-> kind, pc |-> pc, niche |-> niche]

\* lines 155-163 and 212-216: the auth client reports its state, with a
\* session (sign-in, token refresh) or without (sign-out)
onAuthStateChange(hasSession) ==
    /\ session' = hasSession
    /\ IF hasSession
       THEN /\ Len(tasks) < MaxTasks
            /\ postLoginError' = Null
            /\ tasks' = Append(tasks, AuthTask("session", "lookup", <<>>))
            /\ UNCHANGED <<user, view>>
       ELSE /\ user' = Null
            /\ view' = "LOGIN"
            /\ UNCHANGED <<postLoginError, tasks>>
    /\ UNCHANGED <<profileRow, appVars>>

\* lines 165-211: the lookup resolved
profileLookedUp(t, result) ==
    /\ t \in 1..Len(tasks)
    /\ tasks[t].kind = "session" /\ tasks[t].pc = "lookup"
    /\ result \in LookupResults(profileRow)
    /\ CASE result = "row" ->
              /\ user' = Some(UserOfRow(The(profileRow)))
              /\ view' = LandingView(UserOfRow(The(profileRow)))
              /\ tasks' = RemoveAt(tasks, t)
         [] result = "PGRST116" ->
              /\ tasks' = [tasks EXCEPT ![t].pc = "insert"]
              /\ UNCHANGED <<user, view>>
         [] result = "error" ->
              /\ tasks' = [tasks EXCEPT ![t].pc = "signOut"]
              /\ UNCHANGED <<user, view>>
         [] OTHER ->
              /\ tasks' = RemoveAt(tasks, t)
              /\ UNCHANGED <<user, view>>
    /\ UNCHANGED <<authVars, appVars>>

\* lines 187-205: the insert of the new user's row resolved
profileInserted(t, ok) ==
    /\ t \in 1..Len(tasks)
    /\ tasks[t].kind = "session" /\ tasks[t].pc = "insert"
    /\ ok \in InsertResults(profileRow)
    /\ IF ok
       THEN /\ profileRow' = Some(NewRow)
            /\ user' = Some(NewUserProfile)
            /\ view' = "PROFILE_SETUP"
            /\ tasks' = RemoveAt(tasks, t)
       ELSE /\ tasks' = [tasks EXCEPT ![t].pc = "signOut"]
            /\ UNCHANGED <<profileRow, user, view>>
    /\ UNCHANGED <<session, postLoginError, appVars>>

\* lines 191-193 and 208-210: signOut resolved. The client drops the session
\* and calls the listener without one (lines 212-216), then the handler
\* goes on
signedOut(t) ==
    /\ t \in 1..Len(tasks)
    /\ tasks[t].kind = "session" /\ tasks[t].pc = "signOut"
    /\ session' = FALSE
    /\ user' = Null
    /\ postLoginError' = Some(T("errorProfileFetch"))
    /\ view' = "LOGIN"
    /\ tasks' = RemoveAt(tasks, t)
    /\ UNCHANGED <<profileRow, appVars>>

\* line 398-399, called by the Header (onLogout): handleLogout up to the
\* await of signOut
handleLogout ==
    /\ ~IsNull(user)
    /\ view # "LOGIN"
    /\ Len(tasks) < MaxTasks
    /\ tasks' = Append(tasks, AuthTask("logout", "signOut", <<>>))
    /\ UNCHANGED <<user, view, authVars, appVars>>

\* lines 399-405: signOut resolved (ok: the client dropped the session and
\* called the listener without one, lines 212-216; otherwise it returned an
\* error and the session stays); the handler clears the history, the
\* counter and the current carousel and removes the two keys from storage;
\* then the save effect runs on the new, empty history (lines 225-229)
loggedOut(t, ok, storage) ==
    /\ t \in 1..Len(tasks)
    /\ tasks[t].kind = "logout" /\ tasks[t].pc = "signOut"
    /\ IF ok
       THEN session' = FALSE /\ user' = Null /\ view' = "LOGIN"
       ELSE UNCHANGED <<session, user, view>>
    /\ carouselHistory' = <<>>
    /\ downloadCount' = 0
    /\ currentCarousel' = Null
    /\ stored' = <<>>
    /\ storedDownloads' = Null
    /\ writeLog' = saveHistoryWithAutoTrim(<<>>, storage, 1).log
    /\ tasks' = RemoveAt(tasks, t)
    /\ UNCHANGED <<selectedSlideId, currentTopic, error, busyVars, apiKey, uuid, clock,
                   postLoginError, profileRow, navVars, isDownloading, downloads>>

\* String.prototype.trim on the niche names of the model
Trim(str) == CASE str = " " -> "" [] str = " Food " -> "Food" [] OTHER -> str

\* line 417
CleanNiche(niche) == SelectSeq(niche, LAMBDA n : Trim(n) # "")

\* lines 408-409, called by the ProfileSetupModal (line 985)
handleProfileSetup(niche) ==
    /\ view = "PROFILE_SETUP"
    /\ ~IsNull(user)
    /\ Len(tasks) < MaxTasks
    /\ tasks' = Append(tasks, AuthTask("profileSetup", "getSession", niche))
    /\ UNCHANGED <<user, view, authVars, appVars>>

\* lines 410-428: getSession resolved
sessionGot(t) ==
    /\ t \in 1..Len(tasks)
    /\ tasks[t].kind = "profileSetup" /\ tasks[t].pc = "getSession"
    /\ tasks' = IF ~session THEN RemoveAt(tasks, t)
                ELSE [tasks EXCEPT ![t].pc = "upsert", ![t].niche = CleanNiche(@)]
    /\ UNCHANGED <<user, view, authVars, appVars>>

\* lines 420-436: the upsert resolved, with or without an error
profileUpserted(t, ok) ==
    /\ t \in 1..Len(tasks)
    /\ tasks[t].kind = "profileSetup" /\ tasks[t].pc = "upsert"
    /\ IF ok
       THEN /\ profileRow' = Some([niche |-> tasks[t].niche, profile_complete |-> TRUE])
            /\ user' = Some([niche |-> tasks[t].niche, profileComplete |-> TRUE])
            /\ view' = "DASHBOARD"
       ELSE UNCHANGED <<profileRow, user, view>>
    /\ tasks' = RemoveAt(tasks, t)
    /\ UNCHANGED <<session, postLoginError, appVars>>

----------------------------------------------------------------------------
(* Navigation outside the carousel handlers: the settings modal (lines     *)
(* 1111-1122), the MobileFooter (lines 1123-1138), the settings and        *)
(* tutorial screens (lines 1037-1054).                                     *)

\* what a navigation that calls setView alone leaves as it is
viewFrame == <<user, apiKey, uuid, clock, authVars, exportVars, sessionVars, error,
               storageVars, busyVars, asyncVars>>

\* line 1066, called by the Header (onOpenSettings)
onOpenSettings ==
    /\ ~IsNull(user)
    /\ view # "LOGIN"
    /\ isSettingsOpen' = TRUE
    /\ UNCHANGED <<view, previousView, viewFrame>>

\* lines 1117-1120: the tutorial link of the settings modal
onShowTutorialInModal ==
    /\ isSettingsOpen
    /\ isSettingsOpen' = FALSE
    /\ view' = "TUTORIAL"
    /\ UNCHANGED <<previousView, viewFrame>>

\* lines 1126-1135, called by the MobileFooter (onNavigate)
onNavigate(targetView, storage) ==
    /\ ~IsNull(user)
    /\ The(user).profileComplete
    /\ CASE targetView = "DASHBOARD" -> goToDashboard(storage)
         [] targetView = "SETTINGS" ->
              /\ previousView' = view
              /\ view' = "SETTINGS"
              /\ UNCHANGED <<isSettingsOpen, viewFrame>>
         [] OTHER ->
              /\ view' = targetView
              /\ UNCHANGED <<navVars, viewFrame>>

\* line 1044: the settings screen is closed
onCloseSettings ==
    /\ view = "SETTINGS"
    /\ view' = previousView
    /\ UNCHANGED <<navVars, viewFrame>>

\* lines 989 and 1046: the tutorial links of the Dashboard and of the
\* settings screen
onShowTutorial ==
    /\ view \in {"DASHBOARD", "SETTINGS"}
    /\ view' = "TUTORIAL"
    /\ UNCHANGED <<navVars, viewFrame>>

\* line 1051, called by the TutorialScreen (onBack)
onBack ==
    /\ view = "TUTORIAL"
    /\ view' = "DASHBOARD"
    /\ UNCHANGED <<navVars, viewFrame>>

----------------------------------------------------------------------------
(* Export: handleDownloadCarousel (lines 744-826). The handler is suspended *)
(* at the fetch of a video, at the rasterization of a slide element        *)
(* (html2canvas and toBlob) and at the build of the archive.               *)

\* what the export leaves alone
exportFrame == <<user, view, apiKey, uuid, clock, authVars, navVars, sessionVars,
                 storageVars, busyVars>>

\* line 756: slideOrderMap.get(id) ?? 99
OrderKey(carousel, id) ==
    IF FindIndexById(carousel.slides, id) # 0
    THEN FindIndexById(carousel.slides, id) - 1 ELSE 99

\* one element put in its place among sorted ones, after those of equal key
RECURSIVE InsertByKey(_, _, _)
InsertByKey(sorted, element, carousel) ==
    IF sorted = <<>>
    THEN <<element>>
    ELSE IF OrderKey(carousel, Head(sorted)) <= OrderKey(carousel, element)
         THEN <<Head(sorted)>> \o InsertByKey(Tail(sorted), element, carousel)
         ELSE <<element>> \o sorted

\* lines 753-757: Array.prototype.sort by the slides' positions, stable
RECURSIVE OrderedElements(_, _)
OrderedElements(elements, carousel) ==
    IF elements = <<>>
    THEN <<>>
    ELSE InsertByKey(OrderedElements(SubSeq(elements, 1, Len(elements) - 1), carousel),
                     elements[Len(elements)], carousel)

\* lines 759-763: the first element from position i on that is a slide of
\* the carousel; past the end when there is none
NextElement(carousel, ordered, i) ==
    LET found == {j \in i..Len(ordered) : FindIndexById(carousel.slides, ordered[j]) # 0}
    IN  IF found = {} THEN Len(ordered) + 1
        ELSE CHOOSE j \in found : \A k \in found : j <= k

\* line 765
VisualUrl(carousel, slide) ==
    IF Get(slide, "backgroundImage") # Undefined
    THEN slide.backgroundImage
    ELSE Get(carousel.preferences, "backgroundImage")

\* line 766
IsVideo(visualUrl) == visualUrl # Undefined /\ StartsWith(visualUrl, DataVideoPrefix)

\* the await the handler stops at for element j: the fetch of a video
\* slide, the rasterization of an image slide, the build of the archive
\* after the last element
AwaitAt(carousel, ordered, j) ==
    IF j > Len(ordered) THEN "archive"
    ELSE IF IsVideo(VisualUrl(carousel, EntryOf(carousel.slides, ordered[j])))
         THEN "fetch" ELSE "raster"

\* a suspended export: the carousel and the counter of its closure, the
\* sorted elements, the position in them and the entries of the archive
DownloadTask(carousel, count, ordered, j, entries) ==
    [kind |-> "download", pc |-> AwaitAt(carousel, ordered, j), carousel |-> carousel,
     count |-> count, elements |-> ordered, i |-> j, entries |-> entries]

\* exports of one run
MaxExports == 2

\* lines 744-763, called by the Generator (onDownload); elements: the
\* data-carousel-slide attributes of the rendered elements, in DOM order
handleDownloadCarousel(elements) ==
    /\ view = "GENERATOR"
    /\ Len(tasks) < MaxTasks
    /\ Len(downloads) + Cardinality({t \in DOMAIN tasks : tasks[t].kind = "download"})
          < MaxExports
    /\ IF IsNull(currentCarousel)
       THEN UNCHANGED <<isDownloading, error, tasks>>
       ELSE LET carousel == The(currentCarousel)
                ordered == OrderedElements(elements, carousel)
            IN  /\ isDownloading' = TRUE
                /\ error' = Null
                /\ tasks' = Append(tasks,
                       DownloadTask(carousel, downloadCount, ordered,
                                    NextElement(carousel, ordered, 1), <<>>))
    /\ UNCHANGED <<downloadCount, storedDownloads, downloads, exportFrame>>

\* the export without its catch block: lines 823-825 alone
DownloadEnded(t) ==
    /\ isDownloading' = FALSE
    /\ tasks' = RemoveAt(tasks, t)
    /\ UNCHANGED <<error, downloadCount, storedDownloads, downloads>>

\* lines 820-825: the catch and the finally block
DownloadFailed(t) ==
    /\ error' = Some(T("errorDownload"))
    /\ isDownloading' = FALSE
    /\ tasks' = RemoveAt(tasks, t)
    /\ UNCHANGED <<downloadCount, storedDownloads, downloads>>

\* line 772: videoBlob.type.split('/')[1] || 'mp4'
Extension(blobType) ==
    CASE blobType = "video/mp4" -> "mp4"
      [] blobType = "video/webm" -> "webm"
      [] OTHER -> "mp4"

\* lines 770-778: the fetch of the video settled, with the type of its blob
\* or with "error"
videoFetched(t, blobType) ==
    /\ t \in 1..Len(tasks)
    /\ tasks[t].kind = "download" /\ tasks[t].pc = "fetch"
    /\ IF blobType = "error"
       THEN DownloadFailed(t)
       ELSE /\ tasks' = [tasks EXCEPT
                  ![t].pc = "raster",
                  ![t].entries = Append(@, <<"slide-", tasks[t].i, Extension(blobType)>>)]
            /\ UNCHANGED <<error, exportVars>>
    /\ UNCHANGED exportFrame

\* lines 778-803: html2canvas and toBlob settled for the element at hand,
\* with a blob, with null or with "error"; then the loop goes on to the
\* next await
slideRasterized(t, result) ==
    /\ t \in 1..Len(tasks)
    /\ tasks[t].kind = "download" /\ tasks[t].pc = "raster"
    /\ IF result = "error"
       THEN DownloadFailed(t)
       ELSE LET task == tasks[t]
                slide == EntryOf(task.carousel.slides, task.elements[task.i])
                name == IF IsVideo(VisualUrl(task.carousel, slide))
                        THEN <<"slide-", task.i, "_overlay.png">>
                        ELSE <<"slide-", task.i, "png">>
                entries == IF result = "blob" THEN Append(task.entries, name)
                           ELSE task.entries
            IN  /\ tasks' = [tasks EXCEPT ![t] =
                       DownloadTask(task.carousel, task.count, task.elements,
                                    NextElement(task.carousel, task.elements, task.i + 1),
                                    entries)]
                /\ UNCHANGED <<error, exportVars>>
    /\ UNCHANGED exportFrame

\* lines 806-825: generateAsync settled (built: it returned the archive);
\* the archive is handed to the browser, the counter set from the count of
\* the closure and written (written: setItem did not throw)
archiveBuilt(t, built, written) ==
    /\ t \in 1..Len(tasks)
    /\ tasks[t].kind = "download" /\ tasks[t].pc = "archive"
    /\ IF built
       THEN /\ downloads' = Append(downloads, tasks[t].entries)
            /\ downloadCount' = tasks[t].count + 1
            /\ storedDownloads' = IF written THEN Some(tasks[t].count + 1)
                                  ELSE storedDownloads
            /\ error' = IF written THEN error ELSE Some(T("errorDownload"))
            /\ isDownloading' = FALSE
            /\ tasks' = RemoveAt(tasks, t)
       ELSE DownloadFailed(t)
    /\ UNCHANGED exportFrame

----------------------------------------------------------------------------
(* Initial states and inputs. *)

\* the j-th carousel (1: the oldest) of the n an earlier run saved: the
\* newest holds MaxSlides slides, the older ones one slide each
SavedSlides(j, n) == IF j = n THEN MaxSlides ELSE 1
SavedCarousel(j, n) ==
    NewCarousel("Tea", "Tech", FormPreferences, SavedSlides(j, n),
                (j - 1) * (MaxSlides + 1) + 1, j)

\* lines 65-70: the history read from localStorage, newest first
SavedHistory(n) == [i \in 1..n |-> SavedCarousel(n + 1 - i, n)]

\* the App after construction and a completed sign-in of a user whose
\* profile is complete (lines 165-175): history read from storage (lines
\* 65-70) and saved back by the effect's first run; cur and v as an earlier
\* handleEditCarousel may have left them
InitState(history, cur, v, key, uuids, now) ==
    /\ user = Some(CompleteUser)
    /\ view = v
    /\ apiKey = key
    /\ carouselHistory = history
    /\ currentCarousel = cur
    /\ selectedSlideId = IF IsNull(cur) \/ Len(The(cur).slides) = 0 THEN Null
                          ELSE Some(The(cur).slides[1].id)
    /\ currentTopic = IF IsNull(cur) THEN "" ELSE The(cur).title
    /\ error = Null
    /\ stored = Stringify(SanitizeHistory(history))
    /\ writeLog = <<>>
    /\ isGenerating = FALSE
    /\ isGeneratingImageForSlide = Null
    /\ isGeneratingVideoForSlide = Null
    /\ generationMessage = <<>>
    /\ regeneratingPart = Null
    /\ tasks = <<>>
    /\ uuid = uuids
    /\ clock = now
    /\ session = TRUE
    /\ postLoginError = Null
    /\ profileRow = Some([niche |-> CompleteUser.niche, profile_complete |-> TRUE])
    /\ isSettingsOpen = FALSE
    /\ previousView = "DASHBOARD"
    /\ downloadCount = 0
    /\ storedDownloads = Null
    /\ isDownloading = FALSE
    /\ downloads = <<>>

\* on the dashboard with n saved carousels
InitWith(n, key) ==
    InitState(SavedHistory(n), Null, "DASHBOARD", key, n * (MaxSlides + 1), n)

Init == \E n \in 0..MaxCarousels : InitWith(n, "key")

\* the slide ids a handler can be called with: those of the current
\* carousel and one that names no slide
KnownSlideIds == IF IsNull(currentCarousel) THEN {} ELSE SlideIdsOf(The(currentCarousel))
UnknownId == Uuid(0)

----------------------------------------------------------------------------
(* Spec: the session manager. The carousels of a saved history are opened, *)
(* edited with every mutator and flushed; storage accepts every write.     *)

Next ==
    \/ \E id \in KnownSlideIds \cup {UnknownId},
           updates \in {[backgroundColor |-> Str("#ABCDEF")]} :
            handleUpdateSlide(id, updates, StorageOk)
    \/ \E id \in KnownSlideIds \cup {UnknownId}, direction \in {"left", "right"} :
            handleMoveSlide(id, direction)
    \/ handleUpdateCarouselPreferences([aspectRatio |-> Str("4:5")], currentTopic, StorageOk)
    \/ handleClearSlideOverrides("backgroundColor")
    \/ handleApplyBrandKit(StorageOk)
    \/ goToDashboard(StorageOk)
    \/ startNewCarousel
    \/ \E id \in HistoryIds(carouselHistory) \cup {UnknownId} : handleEditCarousel(id)

Spec == Init /\ [][Next]_vars

\* the current carousel has an entry in history and the entry equals it
InSync(cur, history) ==
    /\ ~IsNull(cur)
    /\ InHistory(history, The(cur).id)
    /\ EntryOf(history, The(cur).id) = The(cur)

\* a step of one of the five mutators of the session manager
MutatorStep ==
    \/ \E id \in KnownSlideIds \cup {UnknownId},
           updates \in {[backgroundColor |-> Str("#ABCDEF")]} :
            handleUpdateSlide(id, updates, StorageOk)
    \/ \E id \in KnownSlideIds \cup {UnknownId}, direction \in {"left", "right"} :
            handleMoveSlide(id, direction)
    \/ handleUpdateCarouselPreferences([aspectRatio |-> Str("4:5")], currentTopic, StorageOk)
    \/ handleClearSlideOverrides("backgroundColor")
    \/ handleApplyBrandKit(StorageOk)

\* C3: after every mutator (update slide, move slide, update preferences,
\* clear slide overrides, apply brand kit) applied to a current carousel
\* whose id is present in history, the history entry with that id equals
\* the current carousel.
C3_MutatorsWriteBack ==
    [][(MutatorStep /\ ~IsNull(currentCarousel)
            /\ InHistory(carouselHistory, The(currentCarousel).id))
        => InSync(currentCarousel', carouselHistory')]_vars
----------------------------------------------------------------------------
(* SpecUpdate: saved carousels are opened, their slides edited and moved,  *)
(* and the session flushed on the way back to the dashboard.               *)

\* the Partial<SlideData> argument of SpecUpdate: an edited headline and an
\* uploaded image
EditUpdates == {[headline |-> Str("h1"), backgroundImage |-> ImagePayload(0)]}

NextUpdate ==
    \/ \E id \in HistoryIds(carouselHistory) : handleEditCarousel(id)
    \/ goToDashboard(StorageOk)
    \/ \E id \in KnownSlideIds \cup {UnknownId}, updates \in EditUpdates :
            handleUpdateSlide(id, updates, StorageOk)
    \/ \E id \in KnownSlideIds, direction \in {"left", "right"} :
            handleMoveSlide(id, direction)

SpecUpdate == Init /\ [][NextUpdate]_vars

\* C4: handleUpdateSlide(slideId, updates) on a current carousel present in
\* history replaces only the history entry with the same carousel id by the
\* updated carousel; every other entry, the length of history and the order
\* of its entries are unchanged, and within the carousel only the slide
\* with id slideId changes (it becomes { ...slide, ...updates }).
C4_UpdateSlideFrame ==
    [][\A id \in KnownSlideIds \cup {UnknownId}, updates \in EditUpdates :
        (/\ handleUpdateSlide(id, updates, StorageOk)
         /\ ~IsNull(currentCarousel)
         /\ InHistory(carouselHistory, The(currentCarousel).id))
        => LET old == The(currentCarousel)
               new == The(currentCarousel')
           IN  /\ Len(carouselHistory') = Len(carouselHistory)
               /\ \A i \in 1..Len(carouselHistory) :
                     carouselHistory'[i] =
                        IF carouselHistory[i].id = old.id THEN new ELSE carouselHistory[i]
               /\ new.id = old.id /\ new.title = old.title
               /\ new.createdAt = old.createdAt /\ new.category = old.category
               /\ new.preferences = old.preferences
               /\ Len(new.slides) = Len(old.slides)
               /\ \A j \in 1..Len(old.slides) :
                     IF old.slides[j].id = id
                     THEN /\ DOMAIN new.slides[j] = DOMAIN old.slides[j] \cup DOMAIN updates
                          /\ \A k \in DOMAIN new.slides[j] :
                                new.slides[j][k] = IF k \in DOMAIN updates THEN updates[k]
                                                   ELSE old.slides[j][k]
                     ELSE new.slides[j] = old.slides[j]]_vars

\* the older of two saved carousels is open, its slide's headline was
\* edited, its entry holds the edit and the newer entry is as it was saved
C4_Witness ==
    /\ Len(carouselHistory) = MaxCarousels
    /\ MaxCarousels >= 2
    /\ ~IsNull(currentCarousel)
    /\ The(currentCarousel).id = carouselHistory[Len(carouselHistory)].id
    /\ The(currentCarousel).slides[1].headline = Str("h1")
    /\ carouselHistory[Len(carouselHistory)] = The(currentCarousel)
    /\ carouselHistory[1] = SavedCarousel(MaxCarousels, MaxCarousels)
    /\ Len(writeLog) > 0

----------------------------------------------------------------------------
(* SpecMove: handleMoveSlide on a carousel of up to MaxDeck slides.        *)

\* slides of the carousel whose slides are moved
MaxDeck == 4

\* a saved carousel of k slides whose headlines were edited as hs tells
Deck(k, hs) ==
    LET c == NewCarousel("Tea", "Tech", FormPreferences, k, 1, 1)
    IN  [c EXCEPT !.slides = [i \in 1..k |-> Spread(c.slides[i], [headline |-> Str(hs[i])])]]

\* the carousel is in history and open in the Generator
InitMove ==
    \E k \in 0..MaxDeck : \E hs \in [1..k -> {"h0", "h1"}] :
        InitState(<<Deck(k, hs)>>, Some(Deck(k, hs)), "GENERATOR", "key", k + 1, 1)

NextMove ==
    \E id \in KnownSlideIds \cup {UnknownId}, direction \in {"left", "right"} :
        handleMoveSlide(id, direction)

SpecMove == InitMove /\ [][NextMove]_vars

\* the reference operation: positions i and j exchanged, or nothing
ReferenceMove(slides, slideId, direction) ==
    LET at == {i \in 1..Len(slides) : slides[i].id = slideId}
    IN  IF at = {} THEN slides
        ELSE LET i == CHOOSE x \in at : TRUE
                 j == IF direction = "left" THEN i - 1 ELSE i + 1
             IN  IF j \notin 1..Len(slides) THEN slides
                 ELSE [k \in 1..Len(slides) |->
                          IF k = i THEN slides[j] ELSE IF k = j THEN slides[i] ELSE slides[k]]

\* C7: handleMoveSlide(slideId, direction) equals the reference operation:
\* with the slide at index i and the neighbour index j within bounds the
\* result is the slide sequence with positions i and j exchanged and every
\* other position and every slide's data unchanged; if j is out of bounds
\* or slideId is unknown the slide sequence is unchanged.
C7_MoveIsAdjacentSwap ==
    [][\A id \in KnownSlideIds \cup {UnknownId}, direction \in {"left", "right"} :
        handleMoveSlide(id, direction)
        => /\ ~IsNull(currentCarousel')
           /\ The(currentCarousel').slides =
                 ReferenceMove(The(currentCarousel).slides, id, direction)
           /\ The(currentCarousel') =
                 [The(currentCarousel) EXCEPT !.slides = The(currentCarousel').slides]]_vars

\* the first two slides of a full deck have changed places, the others
\* are where they were
C7_Witness ==
    /\ ~IsNull(currentCarousel)
    /\ Len(The(currentCarousel).slides) = MaxDeck
    /\ The(currentCarousel).slides[1] = carouselHistory[1].slides[2]
    /\ The(currentCarousel).slides[2] = carouselHistory[1].slides[1]
    /\ \A k \in 3..MaxDeck : The(currentCarousel).slides[k] = carouselHistory[1].slides[k]

----------------------------------------------------------------------------
(* SpecPrefs: handleUpdateCarouselPreferences on an open saved carousel.   *)

\* a saved carousel is open in the Generator
InitPrefs ==
    \E n \in 1..MaxCarousels : \E i \in 1..n :
        InitState(SavedHistory(n), Some(SavedHistory(n)[i]), "GENERATOR", "key",
                  n * (MaxSlides + 1), n)

\* the Partial<DesignPreferences> arguments of SpecPrefs
PreferenceInputs ==
    {[aspectRatio |-> Str("4:5")],
     [aspectRatio |-> Str("1:1")],
     [backgroundColor |-> Str("#000000"), font |-> Str("Roboto")],
     [backgroundColor |-> Str("#FFFFFF")],
     [font |-> Str("Inter")],
     [backgroundImage |-> Str("bg.png")],
     [backgroundImage |-> Undefined],
     [brandingText |-> Str("@me")]}

NextPrefs ==
    \E updates \in PreferenceInputs :
        handleUpdateCarouselPreferences(updates, currentTopic, StorageOk)

SpecPrefs == InitPrefs /\ [][NextPrefs]_vars

\* C8: handleUpdateCarouselPreferences(updates, ...) on an existing current
\* carousel yields preferences in which every field named in updates has
\* the new value and every field not named in updates keeps its previous
\* value; the carousel's id, title, slides and category are unchanged.
C8_PreferencesMerge ==
    [][\A updates \in PreferenceInputs :
        (/\ handleUpdateCarouselPreferences(updates, currentTopic, StorageOk)
         /\ ~IsNull(currentCarousel))
        => LET old == The(currentCarousel)
               new == The(currentCarousel')
           IN  /\ DOMAIN new.preferences = DOMAIN old.preferences \cup DOMAIN updates
               /\ \A k \in DOMAIN updates : new.preferences[k] = updates[k]
               /\ \A k \in DOMAIN old.preferences \ DOMAIN updates :
                     new.preferences[k] = old.preferences[k]
               /\ new.id = old.id /\ new.title = old.title
               /\ new.slides = old.slides /\ new.category = old.category]_vars

\* the aspect ratio and the font were updated, one after the other, and
\* the fields neither update names are those of the saved carousel
C8_Witness ==
    /\ ~IsNull(currentCarousel)
    /\ The(currentCarousel).preferences.aspectRatio = Str("4:5")
    /\ The(currentCarousel).preferences.font = Str("Roboto")
    /\ The(currentCarousel).preferences.backgroundColor = Str("#000000")
    /\ The(currentCarousel).preferences.brandingText = FormPreferences.brandingText
    /\ The(currentCarousel).preferences.headlineStyle = FormPreferences.headlineStyle
    /\ "backgroundImage" \notin DOMAIN The(currentCarousel).preferences
    /\ EntryOf(carouselHistory, The(currentCarousel).id) = The(currentCarousel)
----------------------------------------------------------------------------
(* SpecSave: the history mutations, with a storage that can accept a       *)
(* write, reject it for quota or reject it for another reason.             *)

\* a storage with room for the history cut down to some length: the writes
\* of longer snapshots are rejected for quota
QuotaBehaviours ==
    {[k \in 1..MaxCarousels |-> IF k <= full THEN "quota" ELSE "ok"] : full \in 0..MaxCarousels}

NextSave ==
    \/ \E id \in HistoryIds(carouselHistory) : handleEditCarousel(id)
    \/ startNewCarousel
    \/ \E st \in QuotaBehaviours : goToDashboard(st)
    \/ /\ ~IsNull(selectedSlideId)
       /\ \E st \in QuotaBehaviours :
            handleUpdateSlide(The(selectedSlideId), [backgroundImage |-> VideoPayload(0)], st)
    \/ /\ ~IsNull(currentCarousel)
       /\ \E st \in QuotaBehaviours :
            handleUpdateCarouselPreferences([aspectRatio |-> Str("4:5")], currentTopic, st)
    \/ \E id \in HistoryIds(carouselHistory), st \in QuotaBehaviours :
            handleDeleteCarousel(id, TRUE, st)
    \/ \E st \in QuotaBehaviours : handleClearHistory(TRUE, st)
    \/ handleGenerateCarousel("Coffee Brewing", "", FormPreferences, FALSE)
    \/ \E t \in DOMAIN tasks, st \in QuotaBehaviours : contentResolved(t, 1, st)

SpecSave == Init /\ [][NextSave]_vars

\* a slide visual that starts with 'data:video'
StartsWithDataVideo(slide) ==
    /\ "backgroundImage" \in DOMAIN slide
    /\ Len(slide.backgroundImage) >= 2
    /\ slide.backgroundImage[1] = "data:"
    /\ slide.backgroundImage[2] = "video"

\* C1: after any sequence of history mutations (generate, slide update
\* including an inline video as a slide's visual, preferences update,
\* delete, clear, flush on navigation) the snapshot written to durable
\* storage holds no slide whose backgroundImage starts with 'data:video'.
C1_NoInlineVideoStored ==
    \A i \in 1..Len(stored) : \A j \in 1..Len(stored[i].slides) :
        ~StartsWithDataVideo(stored[i].slides[j])

\* a carousel holds an inline video in memory and was written without it
C1_Witness ==
    /\ Len(stored) = Len(carouselHistory)
    /\ Len(writeLog) > 0
    /\ writeLog[Len(writeLog)].outcome = "ok"
    /\ \E i \in 1..Len(carouselHistory) : \E j \in 1..Len(carouselHistory[i].slides) :
          /\ StartsWithDataVideo(carouselHistory[i].slides[j])
          /\ stored[i].id = carouselHistory[i].id
          /\ stored[i].slides[j].id = carouselHistory[i].slides[j].id
          /\ "backgroundImage" \notin DOMAIN stored[i].slides[j]

\* the setItem attempts of a log
Attempts(log) == SelectSeq(log, LAMBDA e : e.op = "setItem")

\* C2: when a non-empty history of n entries is saved and storage rejects
\* writes with a quota error, the k-th attempt writes the first n-k+1
\* entries (the last, oldest one dropped each time), an attempt is made
\* only after a quota rejection, and the attempts stop at the first write
\* that succeeds or at the quota rejection of a single entry; in the latter
\* case errorHistoryTooLarge is reported and nothing else follows.
C2_QuotaRetry ==
    LET n == Len(carouselHistory)
        a == Attempts(writeLog)
        m == Len(a)
    IN  (n >= 1 /\ m >= 1 /\ \A k \in 1..m : a[k].outcome # "other")
        => /\ m <= n
           /\ \A k \in 1..m : a[k].ids = [i \in 1..(n - k + 1) |-> carouselHistory[i].id]
           /\ \A k \in 1..(m - 1) : a[k].outcome = "quota"
           /\ \/ /\ a[m].outcome = "ok"
                 /\ writeLog = a
                 /\ [i \in 1..Len(stored) |-> stored[i].id] = a[m].ids
              \/ /\ a[m].outcome = "quota"
                 /\ m = n
                 /\ writeLog = Append(a, ReportTooLarge)

\* a full history was rejected for quota at every length down to one entry
\* and the size error reported
C2_Witness ==
    /\ Len(carouselHistory) = MaxCarousels
    /\ MaxCarousels >= 2
    /\ Len(writeLog) = MaxCarousels + 1
    /\ \A k \in 1..MaxCarousels :
          /\ writeLog[k].outcome = "quota"
          /\ Len(writeLog[k].ids) = MaxCarousels - k + 1
    /\ writeLog[MaxCarousels + 1] = ReportTooLarge
    /\ error = Some("errorHistoryTooLarge")
----------------------------------------------------------------------------
(* SpecBulk: carousels are generated, with and without an image for every  *)
(* slide, and images generated for all slides of an open carousel; a bulk  *)
(* handler is started when no other is running (isGenerating is false).    *)

NextBulk ==
    \/ startNewCarousel
    \/ \E id \in HistoryIds(carouselHistory) : handleEditCarousel(id)
    \/ /\ ~isGenerating
       /\ \E topic \in Topics, magicCreate \in BOOLEAN :
            handleGenerateCarousel(topic, "", FormPreferences, magicCreate)
    \/ \E t \in DOMAIN tasks, nSlides \in 1..MaxSlides : contentResolved(t, nSlides, StorageOk)
    \/ \E t \in DOMAIN tasks : contentRejected(t, "unrecognized")
    \/ ~isGenerating /\ handleGenerateAllImages(StorageOk)
    \/ \E t \in DOMAIN tasks, resolved \in BOOLEAN : imageSettled(t, resolved, StorageOk)

SpecBulk == Init /\ [][NextBulk]_vars

\* C5: a successful handleGenerateCarousel(topic, ...) produces a carousel
\* whose title is the topic and whose id differs from every id in history,
\* and inserts it at the front of history: right after the insertion the
\* first entry is the new carousel and the previous entries follow in
\* their previous order.
C5_GeneratedCarouselPrepended ==
    [][\A t \in DOMAIN tasks :
        /\ \A nSlides \in 1..MaxSlides :
              contentResolved(t, nSlides, StorageOk)
              => LET new == The(currentCarousel')
                 IN  /\ new.title = tasks[t].topic
                     /\ new.id \notin HistoryIds(carouselHistory)
                     /\ Len(new.slides) = nSlides
                     /\ IF tasks[t].magicCreate
                        THEN /\ tasks'[t].carousel = new
                             /\ carouselHistory' = carouselHistory
                        ELSE /\ carouselHistory'[1] = new
                             /\ Tail(carouselHistory') = carouselHistory
        /\ \A resolved \in BOOLEAN :
              (/\ imageSettled(t, resolved, StorageOk)
               /\ tasks[t].kind = "carousel"
               /\ tasks[t].i = Len(tasks[t].carousel.slides))
              => /\ carouselHistory'[1].id = tasks[t].carousel.id
                 /\ carouselHistory'[1].title = tasks[t].carousel.title
                 /\ carouselHistory'[1].id \notin HistoryIds(carouselHistory)
                 /\ Tail(carouselHistory') = carouselHistory]_vars

\* a carousel generated for the topic 'Coffee Brewing' with an image for
\* each slide stands in front of the saved entries
C5_Witness ==
    /\ Len(carouselHistory) = MaxCarousels
    /\ MaxCarousels >= 2
    /\ carouselHistory[1].title = "Coffee Brewing"
    /\ carouselHistory[1].id = Uuid(uuid)
    /\ "backgroundImage" \in DOMAIN carouselHistory[1].slides[1]
    /\ Tail(carouselHistory) = SavedHistory(MaxCarousels - 1)
    /\ tasks = <<>>

\* the carousel with the generated image on the slides whose call
\* succeeded (results[j]) and every other slide as it was
ExpectedImages(carousel, results) ==
    [carousel EXCEPT !.slides =
        [j \in 1..Len(carousel.slides) |->
            IF j <= Len(results) /\ results[j]
            THEN [k \in DOMAIN carousel.slides[j] \cup {"backgroundImage"} |->
                    IF k = "backgroundImage" THEN GeneratedImage(carousel.slides[j])
                    ELSE carousel.slides[j][k]]
            ELSE carousel.slides[j]]]

\* C6: executeImageGenerationForAllSlides issues the image calls one at a
\* time in slide order (the call for slide i+1 only after the call for
\* slide i has returned or failed); a failure for one slide does not stop
\* the loop, and the returned carousel carries the generated image on
\* exactly the slides whose call succeeded while all other slides keep
\* their previous visual.
C6_SequentialImages ==
    [][/\ \A t \in DOMAIN tasks' :
            tasks'[t].pc = "images"
            => /\ tasks'[t].i \in 1..Len(tasks'[t].carousel.slides)
               /\ tasks'[t].calls = {tasks'[t].i}
               /\ Len(tasks'[t].results) = tasks'[t].i - 1
               /\ tasks'[t].updated = ExpectedImages(tasks'[t].carousel, tasks'[t].results)
       /\ \A t \in DOMAIN tasks, resolved \in BOOLEAN :
            (imageSettled(t, resolved, StorageOk) /\ tasks[t].i = Len(tasks[t].carousel.slides))
            => LET returned == ExpectedImages(tasks[t].carousel,
                                              Append(tasks[t].results, resolved))
               IN  /\ Len(tasks') = Len(tasks) - 1
                   /\ IF tasks[t].kind = "carousel"
                      THEN carouselHistory'[1] = returned
                      ELSE InHistory(carouselHistory, returned.id)
                           => EntryOf(carouselHistory', returned.id) = returned]_vars

\* a generated carousel whose first image call failed and whose last
\* succeeded
C6_Witness ==
    /\ Len(carouselHistory) > 0
    /\ carouselHistory[1].id = Uuid(uuid)
    /\ Len(carouselHistory[1].slides) = MaxSlides
    /\ MaxSlides >= 2
    /\ "backgroundImage" \notin DOMAIN carouselHistory[1].slides[1]
    /\ "backgroundImage" \in DOMAIN carouselHistory[1].slides[MaxSlides]
    /\ carouselHistory[1].slides[MaxSlides].backgroundImage =
          GeneratedImage(carouselHistory[1].slides[MaxSlides])
    /\ tasks = <<>>

----------------------------------------------------------------------------
(* SpecGen: the bulk handlers started whenever the Generator is in view,   *)
(* also while others are suspended at a call (the handlers of lines        *)
(* 508-556 and 576-599 do not read isGenerating).                          *)

NextGen ==
    \/ startNewCarousel
    \/ \E id \in HistoryIds(carouselHistory) : handleEditCarousel(id)
    \/ \E magicCreate \in BOOLEAN :
            handleGenerateCarousel("Coffee Brewing", "", FormPreferences, magicCreate)
    \/ \E t \in DOMAIN tasks : contentResolved(t, MaxSlides, StorageOk)
    \/ \E t \in DOMAIN tasks : contentRejected(t, "unrecognized")
    \/ handleGenerateAllImages(StorageOk)
    \/ \E t \in DOMAIN tasks, resolved \in BOOLEAN : imageSettled(t, resolved, StorageOk)

SpecGen == Init /\ [][NextGen]_vars

\* C9: in every reachable state the in-memory history is ordered newest
\* first: of any two entries the one earlier in the list was created no
\* earlier than the one later in the list, also when several generations
\* are in flight at once and complete in any order.
C9_NewestFirst ==
    \A i \in 1..Len(carouselHistory) : \A j \in i..Len(carouselHistory) :
        carouselHistory[i].createdAt >= carouselHistory[j].createdAt

----------------------------------------------------------------------------
(* SpecSlideOps: the single-slide operations on the selected slide of an   *)
(* open saved carousel, one at a time, with and without a configured API   *)
(* key.                                                                    *)

InitSlideOps == \E n \in 1..MaxCarousels, key \in {"", "key"} : InitWith(n, key)

\* the slide the operations of SpecSlideOps are called for
SelectedIds == IF IsNull(selectedSlideId) THEN {} ELSE {The(selectedSlideId)}

NextSlideOps ==
    \/ \E id \in HistoryIds(carouselHistory) : handleEditCarousel(id)
    \/ \E id \in SelectedIds :
            handleUpdateSlide(id, [backgroundImage |-> ImagePayload(0)], StorageOk)
    \/ tasks = <<>> /\ \E id \in SelectedIds : handleGenerateImageForSlide(id)
    \/ /\ tasks = <<>>
       /\ \E id \in SelectedIds, part \in {"headline", "body"} : handleRegenerateContent(id, part)
    \/ tasks = <<>> /\ \E id \in SelectedIds : handleGenerateVideoForSlide(id)
    \/ \E t \in DOMAIN tasks : videoKeyChecked(t)
    \/ tasks = <<>> /\ \E id \in SelectedIds : handleEditImageForSlide(id, "make it blue")
    \/ \E t \in DOMAIN tasks : \E updates \in SlideResults(tasks[t]) :
            slideCallResolved(t, updates, StorageOk)
    \/ \E t \in DOMAIN tasks,
          err \in {"api key is not configured", "Requested entity was not found."} :
            slideCallRejected(t, err)

SpecSlideOps == InitSlideOps /\ [][NextSlideOps]_vars

\* C10: each single-target operation (regenerate headline or body, generate
\* one slide's image, generate one slide's video, edit an existing image)
\* is gated on a configured credential: while settings.apiKey is not
\* configured no backend generation call is outstanding.
C10_CredentialGate ==
    apiKey = "" => \A t \in DOMAIN tasks : tasks[t].calls = {}

----------------------------------------------------------------------------
(* SpecErrors: the single-slide operations on the selected slide of an     *)
(* open saved carousel, their call rejected with every error message of    *)
(* the model.                                                              *)

NextErrors ==
    \/ \E id \in HistoryIds(carouselHistory) : handleEditCarousel(id)
    \/ goToDashboard(StorageOk)
    \/ tasks = <<>> /\ \E id \in SelectedIds : handleGenerateImageForSlide(id)
    \/ /\ tasks = <<>>
       /\ \E id \in SelectedIds, part \in {"headline", "body"} : handleRegenerateContent(id, part)
    \/ tasks = <<>> /\ \E id \in SelectedIds : handleGenerateVideoForSlide(id)
    \/ \E t \in DOMAIN tasks : videoKeyChecked(t)
    \/ \E t \in DOMAIN tasks, err \in ErrorMessages : slideCallRejected(t, err)

SpecErrors == (\E n \in 1..MaxCarousels : InitWith(n, "key")) /\ [][NextErrors]_vars

\* the message is a structured API error with code 429 or status
\* RESOURCE_EXHAUSTED
IsStructuredQuota(err) ==
    /\ ~IsNull(ErrorObject(err))
    /\ The(ErrorObject(err)).code = 429 \/ The(ErrorObject(err)).status = "RESOURCE_EXHAUSTED"

\* the quota-exceeded user messages (with the default or the error's link)
QuotaExceededTexts == {QuotaExceededText(""), QuotaExceededText("https://help")}

\* the text in which a condition is looked for: the inner message of a
\* structured error, the message itself otherwise
ConditionText(err) ==
    IF IsNull(ErrorObject(err)) THEN err ELSE The(ErrorObject(err)).message

\* the message carries none of the conditions the classifier knows
MatchesNone(err) ==
    /\ err # ""
    /\ ~IsStructuredQuota(err)
    /\ \A str \in {err, ConditionText(err)} :
          /\ ~LowerIncludes(str, "api key not valid")
          /\ ~LowerIncludes(str, "permission denied")
          /\ ~LowerIncludes(str, "api key is not configured")
          /\ ~Includes(str, "AI did not return an image from your prompt.")

\* a rejection of a call whose handler passes the result of
\* parseAndDisplayError to setError as it is
RejectedWith(t, err) == slideCallRejected(t, err) /\ tasks[t].kind # "video"

\* C11 (as stated): a structured error with code 429 or status
\* RESOURCE_EXHAUSTED gives the quota-exceeded message, the plain message
\* 'API key not valid' the invalid-credential message, and any message that
\* matches none of the recognised conditions is returned unchanged.
C11_AsStated ==
    [][\A t \in DOMAIN tasks, err \in ErrorMessages :
        RejectedWith(t, err)
        => /\ IsStructuredQuota(err) => The(error') \in QuotaExceededTexts
           /\ err = "API key not valid" => error' = Some("errorInvalidApiKey")
           /\ MatchesNone(err) => error' = Some(err)]_vars

\* C11 (amended): a structured error with code 429 or status
\* RESOURCE_EXHAUSTED gives the quota-exceeded message, the plain message
\* 'API key not valid' the invalid-credential message; a message that is
\* not a structured error and matches none of the recognised conditions is
\* returned unchanged, a structured error that matches none gives its inner
\* message, or the message unchanged when it has no inner message.
C11_ClassifierCases ==
    [][\A t \in DOMAIN tasks, err \in ErrorMessages :
        RejectedWith(t, err)
        => /\ IsStructuredQuota(err) => The(error') \in QuotaExceededTexts
           /\ err = "API key not valid" => error' = Some("errorInvalidApiKey")
           /\ MatchesNone(err)
              => error' = Some(IF ConditionText(err) # "" THEN ConditionText(err) ELSE err)]_vars

\* a rejected call has left the quota-exceeded message with the link of
\* the error's details
C11_Witness ==
    /\ error = Some(QuotaExceededText("https://help"))
    /\ tasks = <<>>
    /\ view = "GENERATOR"

\* the condition a message carries, in either form
CarriesQuota(err) == IsStructuredQuota(err) \/ err = "Quota exceeded (429 RESOURCE_EXHAUSTED)"
CarriesInvalidCredential(err) ==
    \/ LowerIncludes(ConditionText(err), "api key not valid")
    \/ LowerIncludes(ConditionText(err), "permission denied")
CarriesNotConfigured(err) == LowerIncludes(ConditionText(err), "api key is not configured")

\* C12: parseAndDisplayError recognises each of quota-exceeded,
\* invalid-credential and not-configured both from a structured API error
\* and from an unstructured message, and returns the same fixed message for
\* a condition whichever form carries it.
C12_BothForms ==
    [][\A t \in DOMAIN tasks, err \in ErrorMessages :
        RejectedWith(t, err)
        => /\ CarriesQuota(err) => The(error') \in QuotaExceededTexts
           /\ CarriesInvalidCredential(err) => error' = Some("errorInvalidApiKey")
           /\ CarriesNotConfigured(err) => error' = Some("errorApiKeyNotConfigured")]_vars
----------------------------------------------------------------------------
(* SpecSaveError: the handlers that replace the history array, so that the *)
(* save effect runs, with a storage whose every write can succeed, be      *)
(* rejected for quota or be rejected for another reason.                   *)

NextSaveError ==
    \/ \E id \in HistoryIds(carouselHistory) : handleEditCarousel(id)
    \/ \E st \in StorageBehaviours : goToDashboard(st)
    \/ /\ ~IsNull(currentCarousel)
       /\ handleMoveSlide(The(currentCarousel).slides[1].id, "right")
    \/ \E id \in HistoryIds(carouselHistory), st \in StorageBehaviours :
            handleDeleteCarousel(id, TRUE, st)
    \/ \E st \in StorageBehaviours : handleClearHistory(TRUE, st)

SpecSaveError == Init /\ [][NextSaveError]_vars

\* a step of a handler that sets no error of its own and after which the
\* save effect runs against the storage behaviour st
SaveRuns(st) ==
    \/ \E id \in HistoryIds(carouselHistory) : handleDeleteCarousel(id, TRUE, st)
    \/ handleClearHistory(TRUE, st)
    \/ /\ ~IsNull(currentCarousel)
       /\ InHistory(carouselHistory, The(currentCarousel).id)
       /\ goToDashboard(st)

\* every write down to the one of the single remaining entry is rejected
\* for quota
EvictionExhausted(h, st) == Len(h) >= 1 /\ \A k \in 1..Len(h) : st[k] = "quota"

\* C13: the save effect writes the error state exactly when the write of a
\* single remaining entry is rejected for quota, and then to
\* errorHistoryTooLarge; a save that succeeds (at once or after drops), a
\* save of the empty history and a write rejected for another reason leave
\* the error state as it was, and nothing is attempted after a rejection
\* that is not for quota.
C13_ErrorOnlyWhenExhausted ==
    [][\A st \in StorageBehaviours :
          SaveRuns(st) =>
              /\ error' = IF EvictionExhausted(carouselHistory', st)
                          THEN Some("errorHistoryTooLarge") ELSE error
              /\ \A k \in 1..Len(writeLog') :
                    writeLog'[k].outcome = "other" => k = Len(writeLog')]_vars

\* the size error of an earlier exhausted save is still shown after a save
\* that dropped an entry and was then rejected for another reason
C13_Witness ==
    /\ error = Some("errorHistoryTooLarge")
    /\ Len(carouselHistory) >= 2
    /\ Len(writeLog) = 2
    /\ writeLog[1].outcome = "quota"
    /\ writeLog[2].outcome = "other"
----------------------------------------------------------------------------
(* SpecAuth: sign-in, sign-out and profile setup, from the login screen of *)
(* a freshly constructed App.                                              *)

\* the rows the profiles table can hold for the user when the App starts:
\* none, a completed profile, a profile completed without a niche
SavedRows ==
    {Null,
     Some([niche |-> CompleteUser.niche, profile_complete |-> TRUE]),
     Some([niche |-> <<>>, profile_complete |-> TRUE])}

\* lines 59-101: the App after construction, nobody signed in
InitAuth ==
    /\ user = Null
    /\ view = "LOGIN"
    /\ apiKey = "key"
    /\ carouselHistory = <<>>
    /\ currentCarousel = Null
    /\ selectedSlideId = Null
    /\ currentTopic = ""
    /\ error = Null
    /\ stored = <<>>
    /\ writeLog = <<>>
    /\ isGenerating = FALSE
    /\ isGeneratingImageForSlide = Null
    /\ isGeneratingVideoForSlide = Null
    /\ generationMessage = <<>>
    /\ regeneratingPart = Null
    /\ tasks = <<>>
    /\ uuid = 0
    /\ clock = 0
    /\ session = FALSE
    /\ postLoginError = Null
    /\ profileRow \in SavedRows
    /\ isSettingsOpen = FALSE
    /\ previousView = "DASHBOARD"
    /\ downloadCount = 0
    /\ storedDownloads = Null
    /\ isDownloading = FALSE
    /\ downloads = <<>>

\* the niche lists the setup form sends
NicheInputs == {<<" ">>, <<" ", " Food ">>}

NextAuth ==
    \/ \E hasSession \in BOOLEAN : onAuthStateChange(hasSession)
    \/ \E t \in DOMAIN tasks, result \in {"row", "PGRST116", "error", "nothing"} :
            profileLookedUp(t, result)
    \/ \E t \in DOMAIN tasks, ok \in BOOLEAN : profileInserted(t, ok)
    \/ \E t \in DOMAIN tasks : signedOut(t)
    \/ \E niche \in NicheInputs : handleProfileSetup(niche)
    \/ \E t \in DOMAIN tasks : sessionGot(t)
    \/ \E t \in DOMAIN tasks, ok \in BOOLEAN : profileUpserted(t, ok)

SpecAuth == InitAuth /\ [][NextAuth]_vars

\* the listener of task t ends with the row of the profiles table
FetchesRow(t) == profileLookedUp(t, "row")

\* C14 as stated, with the profile's completeness read as its flag: the
\* listener that fetched a profile shows DASHBOARD when the profile is
\* marked complete and PROFILE_SETUP when it is not.
C14_AsStated ==
    [][\A t \in DOMAIN tasks :
          FetchesRow(t) =>
              view' = IF The(profileRow).profile_complete THEN "DASHBOARD"
                      ELSE "PROFILE_SETUP"]_vars

\* C14: the listener that fetched a profile sets the user from it and shows
\* DASHBOARD when the profile is marked complete and names at least one
\* niche, PROFILE_SETUP otherwise; the listener that created the profile
\* of a new user shows PROFILE_SETUP. A handleProfileSetup whose save
\* succeeded marks the profile complete, in the table and in the user, and
\* shows DASHBOARD; one whose save failed, or that found no session, leaves
\* the view and the user as they were.
C14_ProfileSetupFlow ==
    [][\A t \in DOMAIN tasks :
          /\ FetchesRow(t) =>
                /\ user' = Some([niche |-> The(profileRow).niche,
                                 profileComplete |-> The(profileRow).profile_complete])
                /\ view' = IF /\ The(profileRow).profile_complete
                              /\ The(profileRow).niche # <<>>
                           THEN "DASHBOARD" ELSE "PROFILE_SETUP"
          /\ profileInserted(t, TRUE) =>
                /\ user' = Some([niche |-> <<>>, profileComplete |-> FALSE])
                /\ view' = "PROFILE_SETUP"
          /\ profileUpserted(t, TRUE) =>
                /\ The(user').profileComplete
                /\ The(profileRow').profile_complete
                /\ The(user').niche = The(profileRow').niche
                /\ view' = "DASHBOARD"
          /\ (profileUpserted(t, FALSE) \/ (sessionGot(t) /\ ~session)) =>
                UNCHANGED <<user, view, profileRow>>]_vars

\* a new user went through the setup and is on the dashboard, the profile
\* complete in the table and in the user
C14_Witness ==
    /\ view = "DASHBOARD"
    /\ session
    /\ tasks = <<>>
    /\ user = Some([niche |-> <<" Food ">>, profileComplete |-> TRUE])
    /\ profileRow = Some([niche |-> <<" Food ">>, profile_complete |-> TRUE])

\* the listener of task t ends without having set a user
EndsWithoutProfile(t) == signedOut(t) \/ profileLookedUp(t, "nothing")

\* C16: a listener whose lookup gave no profile (an error other than
\* not-found, a failed insert, or neither a profile nor an error) ends
\* with the session signed out, the view LOGIN and the post-login error set.
C16_FailedLookupSignsOut ==
    [][\A t \in DOMAIN tasks :
          EndsWithoutProfile(t) =>
              /\ ~session'
              /\ view' = "LOGIN"
              /\ postLoginError' = Some("errorProfileFetch")]_vars
----------------------------------------------------------------------------
(* SpecNav: a saved carousel is opened, its slides reordered, and the      *)
(* Generator left by every way out of it.                                  *)

NextNav ==
    \/ \E id \in HistoryIds(carouselHistory) : handleEditCarousel(id)
    \/ \E id \in KnownSlideIds : handleMoveSlide(id, "right")
    \/ goToDashboard(StorageOk)
    \/ onOpenSettings
    \/ onShowTutorialInModal
    \/ \E targetView \in {"DASHBOARD", "SETTINGS", "TUTORIAL"} :
            onNavigate(targetView, StorageOk)
    \/ onCloseSettings
    \/ onShowTutorial
    \/ onBack

SpecNav == (\E n \in 1..MaxCarousels : InitWith(n, "key")) /\ [][NextNav]_vars

\* C15: whenever the view changes from GENERATOR to another view while the
\* current carousel's id is in history, the history entry of that id is,
\* once the view has changed, the carousel that was current.
C15_LeavingGeneratorFlushes ==
    [][(/\ view = "GENERATOR"
        /\ view' # "GENERATOR"
        /\ ~IsNull(currentCarousel)
        /\ InHistory(carouselHistory, The(currentCarousel).id))
       => EntryOf(carouselHistory', The(currentCarousel).id) = The(currentCarousel)]_vars
----------------------------------------------------------------------------
(* SpecBusy: generation handlers started while another is still suspended  *)
(* at its backend call.                                                    *)

NextBusy ==
    \/ \E id \in HistoryIds(carouselHistory) : handleEditCarousel(id)
    \/ \E id \in KnownSlideIds : handleGenerateImageForSlide(id)
    \/ \E t \in DOMAIN tasks : \E updates \in SlideResults(tasks[t]) :
            slideCallResolved(t, updates, StorageOk)
    \/ \E t \in DOMAIN tasks : slideCallRejected(t, "Network error")
    \/ handleGenerateAllImages(StorageOk)
    \/ \E t \in DOMAIN tasks, resolved \in BOOLEAN : imageSettled(t, resolved, StorageOk)
    \/ handleGenerateCarousel("Coffee Brewing", "", FormPreferences, FALSE)
    \/ \E t \in DOMAIN tasks : contentResolved(t, 1, StorageOk)
    \/ \E t \in DOMAIN tasks : contentRejected(t, "Network error")

SpecBusy == (\E n \in 1..MaxCarousels : InitWith(n, "key")) /\ [][NextBusy]_vars

\* C17: while the image call of a single-slide request is outstanding
\* isGeneratingImageForSlide is not null, and while a carousel generation
\* or a generation of all images is outstanding isGenerating is true.
C17_BusyWhileOutstanding ==
    \A t \in DOMAIN tasks :
        /\ tasks[t].kind = "image" => ~IsNull(isGeneratingImageForSlide)
        /\ tasks[t].kind \in {"carousel", "allImages"} => isGenerating
----------------------------------------------------------------------------
(* SpecLeave: carousels are generated, one at a time, and the Generator is *)
(* left for the dashboard while the generation is suspended at a backend   *)
(* call.                                                                   *)

NextLeave ==
    \/ startNewCarousel
    \/ goToDashboard(StorageOk)
    \/ /\ tasks = <<>>
       /\ \E magicCreate \in BOOLEAN :
            handleGenerateCarousel("Coffee Brewing", "", FormPreferences, magicCreate)
    \/ \E t \in DOMAIN tasks, nSlides \in 0..MaxSlides : contentResolved(t, nSlides, StorageOk)
    \/ \E t \in DOMAIN tasks : contentRejected(t, "Network error")
    \/ \E t \in DOMAIN tasks, resolved \in BOOLEAN : imageSettled(t, resolved, StorageOk)

SpecLeave == (\E n \in 0..(MaxCarousels - 1) : InitWith(n, "key")) /\ [][NextLeave]_vars

\* the content call of task t resolves
ContentArrives(t) == \E nSlides \in 0..MaxSlides : contentResolved(t, nSlides, StorageOk)

\* the last image call of the generation of task t settles
LastImageArrives(t) ==
    /\ tasks[t].kind = "carousel"
    /\ tasks[t].pc = "images"
    /\ tasks[t].i = Len(tasks[t].carousel.slides)
    /\ \E resolved \in BOOLEAN : imageSettled(t, resolved, StorageOk)

----------------------------------------------------------------------------
(* SpecExport: a saved carousel is opened, a slide given a video, and the  *)
(* carousel exported, a second export started before the first has ended;  *)
(* every step of an export can fail.                                       *)

\* the rendered slide elements of the current carousel, in document order
\* and in the reverse order
RenderedElements ==
    IF IsNull(currentCarousel) THEN {<<>>}
    ELSE LET slides == The(currentCarousel).slides
             n == Len(slides)
         IN  {[j \in 1..n |-> slides[j].id], [j \in 1..n |-> slides[n + 1 - j].id]}

NextExport ==
    \/ \E id \in HistoryIds(carouselHistory) : handleEditCarousel(id)
    \/ /\ ~IsNull(selectedSlideId)
       /\ tasks = <<>>
       /\ handleUpdateSlide(The(selectedSlideId), [backgroundImage |-> VideoPayload(0)],
                            StorageOk)
    \/ \E elements \in RenderedElements : handleDownloadCarousel(elements)
    \/ \E t \in DOMAIN tasks, blobType \in {"video/mp4", "", "error"} : videoFetched(t, blobType)
    \/ \E t \in DOMAIN tasks, result \in {"blob", "null", "error"} : slideRasterized(t, result)
    \/ \E t \in DOMAIN tasks, built \in BOOLEAN : archiveBuilt(t, built, TRUE)

SpecExport == (\E n \in 1..MaxCarousels : InitWith(n, "key")) /\ [][NextExport]_vars

\* C19: the counter in memory and the stored counter are the number of
\* exports that handed their archive to the browser (the counter starts at
\* 0, nothing stored).
C19_CounterCountsExports ==
    /\ downloadCount = Len(downloads)
    /\ storedDownloads = IF downloads = <<>> THEN Null ELSE Some(Len(downloads))

\* a step of the export of task t fails: the fetch of a video, the
\* rasterization of a slide, the build of the archive
ExportStepFails(t) ==
    \/ videoFetched(t, "error")
    \/ slideRasterized(t, "error")
    \/ archiveBuilt(t, FALSE, TRUE)

----------------------------------------------------------------------------
(* SpecDom: exports of an open carousel, the document holding any of the   *)
(* slide elements: all of them in either order, with an element that is    *)
(* no slide of the carousel, or without the element of the first slide.    *)

\* the data-carousel-slide attributes the document can hold
FoundElements ==
    IF IsNull(currentCarousel) THEN {<<>>}
    ELSE LET slides == The(currentCarousel).slides
             authored == [j \in 1..Len(slides) |-> slides[j].id]
         IN  RenderedElements
                \cup {<<UnknownId>> \o authored}
                \cup (IF authored = <<>> THEN {} ELSE {Tail(authored)})

NextDom ==
    \/ \E id \in HistoryIds(carouselHistory) : handleEditCarousel(id)
    \/ /\ ~IsNull(selectedSlideId)
       /\ tasks = <<>>
       /\ handleUpdateSlide(The(selectedSlideId), [backgroundImage |-> VideoPayload(0)],
                            StorageOk)
    \/ /\ tasks = <<>>
       /\ \E elements \in FoundElements : handleDownloadCarousel(elements)
    \/ \E t \in DOMAIN tasks, blobType \in {"video/mp4", "error"} : videoFetched(t, blobType)
    \/ \E t \in DOMAIN tasks, result \in {"blob", "null", "error"} : slideRasterized(t, result)
    \/ \E t \in DOMAIN tasks, built \in BOOLEAN : archiveBuilt(t, built, TRUE)

SpecDom == (\E n \in 1..MaxCarousels : InitWith(n, "key")) /\ [][NextDom]_vars

\* the export of task t puts an entry in the archive
AddsEntry(t) ==
    /\ \/ \E blobType \in {"video/mp4", "error"} : videoFetched(t, blobType)
       \/ \E result \in {"blob", "null", "error"} : slideRasterized(t, result)
    /\ Len(tasks') = Len(tasks)
    /\ Len(tasks'[t].entries) = Len(tasks[t].entries) + 1

\* C21: every entry an export puts in the archive carries the 1-based
\* position, among the slides of the exported carousel, of the slide whose
\* element is being processed.
C21_EntriesNamedByPosition ==
    [][\A t \in DOMAIN tasks :
          AddsEntry(t) =>
              LET entry == tasks'[t].entries[Len(tasks'[t].entries)]
              IN  /\ entry[1] = "slide-"
                  /\ entry[2] = FindIndexById(tasks[t].carousel.slides,
                                              tasks[t].elements[tasks[t].i])]_vars
----------------------------------------------------------------------------
(* Operations on ids that name nothing, under Spec.                        *)

\* a slide handler is called with an id that is no slide of the current
\* carousel
UnknownSlideStep ==
    \/ handleUpdateSlide(UnknownId, [backgroundColor |-> Str("#ABCDEF")], StorageOk)
    \/ \E direction \in {"left", "right"} : handleMoveSlide(UnknownId, direction)

\* C22: handleUpdateSlide and handleMoveSlide called with an id that is no
\* slide of the current carousel leave the current carousel's slides and
\* the history as they were, handleEditCarousel called with an id that is
\* no carousel of the history leaves the current carousel, the selected
\* slide and the view as they were, and the error state keeps its value.
C22_UnknownIdsChangeNothing ==
    [][/\ UnknownSlideStep =>
            /\ IsNull(currentCarousel') = IsNull(currentCarousel)
            /\ ~IsNull(currentCarousel) =>
                  The(currentCarousel').slides = The(currentCarousel).slides
            /\ carouselHistory' = carouselHistory
            /\ error' = error
       /\ handleEditCarousel(UnknownId) =>
            UNCHANGED <<currentCarousel, selectedSlideId, view, error>>]_vars
----------------------------------------------------------------------------
(* SpecTemp: preferences are set with no carousel open, which creates the  *)
(* placeholder, and the placeholder is edited, given images (it has no     *)
(* slide, so that no image call is made) and left.                         *)

NextTemp ==
    \/ startNewCarousel
    \/ \E id \in HistoryIds(carouselHistory) : handleEditCarousel(id)
    \/ handleUpdateCarouselPreferences([aspectRatio |-> Str("4:5")], currentTopic, StorageOk)
    \/ handleUpdateSlide(UnknownId, [headline |-> Str("h1")], StorageOk)
    \/ handleApplyBrandKit(StorageOk)
    \/ /\ ~IsNull(currentCarousel)
       /\ The(currentCarousel).slides = <<>>
       /\ handleGenerateAllImages(StorageOk)
    \/ goToDashboard(StorageOk)

SpecTemp == Init /\ [][NextTemp]_vars

\* a carousel whose id starts with 'temp-'
IsPlaceholder(carousel) == carousel.id[1] = "temp-"

\* C23: no entry of the history in memory and no entry of the stored
\* history is a placeholder carousel.
C23_NoPlaceholderInHistory ==
    /\ \A i \in 1..Len(carouselHistory) : ~IsPlaceholder(carouselHistory[i])
    /\ \A i \in 1..Len(stored) : ~IsPlaceholder(stored[i])

\* a placeholder was created, then left for the dashboard, and a second
\* one is the current carousel
C23_Witness ==
    /\ ~IsNull(currentCarousel)
    /\ IsPlaceholder(The(currentCarousel))
    /\ The(currentCarousel).slides = <<>>
    /\ The(currentCarousel).id[2] >= Len(carouselHistory) * (MaxSlides + 1) + 2
----------------------------------------------------------------------------
(* SpecIds: carousels are generated, opened, edited, flushed, deleted and  *)
(* cleared, the edits and the navigation also while a generation is in     *)
(* flight.                                                                 *)

NextIds ==
    \/ startNewCarousel
    \/ \E id \in HistoryIds(carouselHistory) : handleEditCarousel(id)
    \/ /\ tasks = <<>>
       /\ \E magicCreate \in BOOLEAN :
            handleGenerateCarousel("Coffee Brewing", "", FormPreferences, magicCreate)
    \/ \E t \in DOMAIN tasks : contentResolved(t, 1, StorageOk)
    \/ \E t \in DOMAIN tasks : imageSettled(t, TRUE, StorageOk)
    \/ \E id \in KnownSlideIds : handleUpdateSlide(id, [headline |-> Str("h1")], StorageOk)
    \/ goToDashboard(StorageOk)
    \/ \E id \in HistoryIds(carouselHistory) : handleDeleteCarousel(id, TRUE, StorageOk)
    \/ handleClearHistory(TRUE, StorageOk)

SpecIds == Init /\ [][NextIds]_vars

\* the ids of the list's entries are pairwise distinct
DistinctIds(h) == \A i, j \in 1..Len(h) : h[i].id = h[j].id => i = j

\* C24: no two entries of the history have the same id, and neither have
\* two entries of the stored history.
C24_IdsUniqueInHistory ==
    /\ DistinctIds(carouselHistory)
    /\ DistinctIds(stored)

\* a carousel made by this run was added to the history, edited, and is an
\* entry of a history of two or more
C24_Witness ==
    /\ Len(carouselHistory) >= 2
    /\ \E i \in 1..Len(carouselHistory) :
          /\ carouselHistory[i].title = "Coffee Brewing"
          /\ carouselHistory[i].slides # <<>>
          /\ carouselHistory[i].slides[1].headline = Str("h1")
----------------------------------------------------------------------------
(* SpecFail: carousels are generated and the content call fails or         *)
(* succeeds, while the user can leave for the dashboard and open a saved   *)
(* carousel.                                                               *)

\* what the content call rejects with
FailureMessages == BackendErrors \cup {QuotaJson, "Network error"}

NextFail ==
    \/ startNewCarousel
    \/ goToDashboard(StorageOk)
    \/ \E id \in HistoryIds(carouselHistory) : handleEditCarousel(id)
    \/ /\ tasks = <<>>
       /\ handleGenerateCarousel("Coffee Brewing", "", FormPreferences, FALSE)
    \/ \E t \in DOMAIN tasks : contentResolved(t, 1, StorageOk)
    \/ \E t \in DOMAIN tasks, err \in FailureMessages : contentRejected(t, err)

SpecFail == Init /\ [][NextFail]_vars

\* a step in which handleGenerateCarousel passes its guards and starts
GenerationStarts == Len(tasks') = Len(tasks) + 1

\* a step in which a handleGenerateCarousel waiting for its content ends
\* without having made a carousel
ContentCallFails ==
    \E t \in DOMAIN tasks :
        /\ tasks[t].kind = "carousel" /\ tasks[t].pc = "content"
        /\ tasks' = RemoveAt(tasks, t)
        /\ uuid' = uuid

\* what the failing step does apart from the current carousel
FailureHandled ==
    /\ error' \in {parseAndDisplayError(err) : err \in FailureMessages}
    /\ ~IsNull(error')
    /\ UNCHANGED <<carouselHistory, stored, writeLog>>
    /\ isGenerating' = FALSE
    /\ generationMessage' = <<>>
    /\ isGeneratingImageForSlide' = Null

----------------------------------------------------------------------------
(* SpecLive: generations of every kind are started, also while another is  *)
(* in flight, and every backend call a handler waits for returns or fails  *)
(* in the end.                                                             *)

\* the backend call that the handler at position t waits for settles
Settles(t) ==
    /\ t \in DOMAIN tasks
    /\ \/ contentRejected(t, "Network error")
       \/ contentResolved(t, 1, StorageOk)
       \/ \E resolved \in BOOLEAN : imageSettled(t, resolved, StorageOk)
       \/ videoKeyChecked(t)
       \/ slideCallRejected(t, "Network error")
       \/ \E updates \in SlideResults(tasks[t]) : slideCallResolved(t, updates, StorageOk)

NextLive ==
    \/ \E id \in HistoryIds(carouselHistory) : handleEditCarousel(id)
    \/ /\ tasks = <<>>
       /\ \E magicCreate \in BOOLEAN :
            handleGenerateCarousel("Coffee Brewing", "", FormPreferences, magicCreate)
    \/ /\ tasks = <<>>
       /\ handleGenerateAllImages(StorageOk)
    \/ /\ \A t \in DOMAIN tasks : tasks[t].kind = "video"
       /\ \E id \in SelectedIds : handleRegenerateContent(id, "headline")
    \/ /\ tasks = <<>>
       /\ \E id \in SelectedIds : handleGenerateVideoForSlide(id)
    \/ \E t \in DOMAIN tasks : Settles(t)

\* each backend call eventually returns or fails: the handler at any
\* position of tasks is resumed in the end
CallsReturn == \A t \in 1..MaxTasks : WF_vars(Settles(t))

SpecLive ==
    /\ InitWith(1, "key")
    /\ [][NextLive]_vars
    /\ CallsReturn

\* a step in which a handler of one of the kinds ends
HandlerEnds(kinds) ==
    \E t \in DOMAIN tasks : tasks[t].kind \in kinds /\ tasks' = RemoveAt(tasks, t)

\* C26: the step that ends handleGenerateCarousel or handleGenerateAllImages
\* leaves isGenerating false, the generation message empty and
\* isGeneratingImageForSlide null; the step that ends handleRegenerateContent
\* leaves regeneratingPart null; the step that ends
\* handleGenerateVideoForSlide leaves isGeneratingVideoForSlide null; and
\* with every backend call returning or failing, each of these indicators
\* is released again and again: none stays set for ever.
C26_IndicatorsReleased ==
    /\ [][/\ HandlerEnds({"carousel", "allImages"}) =>
                /\ isGenerating' = FALSE
                /\ generationMessage' = <<>>
                /\ IsNull(isGeneratingImageForSlide')
          /\ HandlerEnds({"regenerate"}) => IsNull(regeneratingPart')
          /\ HandlerEnds({"video"}) => IsNull(isGeneratingVideoForSlide')]_vars
    /\ []<>(~isGenerating /\ generationMessage = <<>>)
    /\ []<>IsNull(isGeneratingImageForSlide)
    /\ []<>IsNull(regeneratingPart)
    /\ []<>IsNull(isGeneratingVideoForSlide)

\* a video generation and a regeneration are both in flight with their
\* indicators set, after a bulk image generation has ended
C26_Witness ==
    /\ ~IsNull(isGeneratingVideoForSlide)
    /\ ~IsNull(regeneratingPart)
    /\ Len(tasks) = 2
    /\ ~isGenerating
    /\ \E i \in 1..Len(carouselHistory) :
          \E j \in 1..Len(carouselHistory[i].slides) :
              Get(carouselHistory[i].slides[j], "backgroundImage") # Undefined
----------------------------------------------------------------------------
(* SpecGuard: handleGenerateCarousel is called with and without an API key *)
(* and with and without a user. The Generator is on screen with no user    *)
(* after a sign-out that arrived while the settings modal was open,        *)
(* through the modal's tutorial link, the tutorial's back button and the   *)
(* Dashboard's new-carousel button.                                        *)

NextGuard ==
    \/ startNewCarousel
    \/ \E id \in HistoryIds(carouselHistory) : handleEditCarousel(id)
    \/ \E magicCreate \in BOOLEAN :
            handleGenerateCarousel("Coffee Brewing", "", FormPreferences, magicCreate)
    \/ \E t \in DOMAIN tasks : contentRejected(t, "Network error")
    \/ onOpenSettings
    \/ onAuthStateChange(FALSE)
    \/ onShowTutorialInModal
    \/ onBack

SpecGuard ==
    /\ \E n \in 1..MaxCarousels, key \in {"", "key"} : InitWith(n, key)
    /\ [][NextGuard]_vars

\* a step that is a call of handleGenerateCarousel
GenerateCalled ==
    \E magicCreate \in BOOLEAN :
        handleGenerateCarousel("Coffee Brewing", "", FormPreferences, magicCreate)

\* C27: a call of handleGenerateCarousel with no user changes nothing (no
\* variable, so no pending call either); a call with a user and no API key
\* sets the error to the not-configured message and leaves isGenerating,
\* the current carousel, the current topic, the history and the pending
\* calls as they were.
C27_GuardsOfGenerate ==
    [][GenerateCalled =>
          /\ IsNull(user) => UNCHANGED vars
          /\ ~IsNull(user) /\ apiKey = "" =>
                /\ error' = Some("errorApiKeyNotConfigured")
                /\ UNCHANGED <<isGenerating, currentCarousel, currentTopic, carouselHistory,
                               stored, tasks>>]_vars

\* the Generator is on screen with no user, after a call with a user and no
\* API key has set the error
C27_Witness ==
    /\ IsNull(user)
    /\ view = "GENERATOR"
    /\ apiKey = ""
    /\ error = Some("errorApiKeyNotConfigured")
    /\ ~IsNull(currentCarousel)
----------------------------------------------------------------------------
(* SpecSetup: a user signs in, with or without a profile row, and uses     *)
(* what is on screen in PROFILE_SETUP: the setup form, the Header's        *)
(* dashboard button and settings button, the settings modal's tutorial     *)
(* link and the tutorial's back button.                                    *)

NextSetup ==
    \/ onAuthStateChange(TRUE)
    \/ \E t \in DOMAIN tasks, result \in {"row", "PGRST116", "error", "nothing"} :
            profileLookedUp(t, result)
    \/ \E t \in DOMAIN tasks, ok \in BOOLEAN : profileInserted(t, ok)
    \/ \E t \in DOMAIN tasks : signedOut(t)
    \/ \E niche \in NicheInputs : handleProfileSetup(niche)
    \/ \E t \in DOMAIN tasks : sessionGot(t)
    \/ \E t \in DOMAIN tasks, ok \in BOOLEAN : profileUpserted(t, ok)
    \/ goToDashboard(StorageOk)
    \/ onOpenSettings
    \/ onShowTutorialInModal
    \/ onBack

SpecSetup == InitAuth /\ [][NextSetup]_vars

\* C28: when the view is DASHBOARD or GENERATOR and a user is set, the
\* user's profile is marked complete.
C28_IncompleteNeverSeesDashboard ==
    (view \in {"DASHBOARD", "GENERATOR"} /\ ~IsNull(user)) => The(user).profileComplete
----------------------------------------------------------------------------
(* C29 is checked under SpecAuth. *)

\* C29: when no handler is waiting for the backend and the latest auth
\* event carried no session, the user is null and the view is LOGIN.
C29_LatestEventWins ==
    (tasks = <<>> /\ ~session) => (IsNull(user) /\ view = "LOGIN")
----------------------------------------------------------------------------
(* SpecEditRace: slides are edited while the image loop of                 *)
(* handleGenerateAllImages or of handleGenerateCarousel (magicCreate) is   *)
(* waiting for an image.                                                   *)

NextEditRace ==
    \/ \E id \in HistoryIds(carouselHistory) : handleEditCarousel(id)
    \/ /\ tasks = <<>>
       /\ handleGenerateAllImages(StorageOk)
    \/ /\ tasks = <<>>
       /\ handleGenerateCarousel("Coffee Brewing", "", FormPreferences, TRUE)
    \/ \E t \in DOMAIN tasks : contentResolved(t, MaxSlides, StorageOk)
    \/ \E t \in DOMAIN tasks, resolved \in BOOLEAN : imageSettled(t, resolved, StorageOk)
    \/ \E id \in KnownSlideIds : handleUpdateSlide(id, [headline |-> Str("h1")], StorageOk)

SpecEditRace == (\E n \in 1..MaxCarousels : InitWith(n, "key")) /\ [][NextEditRace]_vars

\* the slides of the carousel that have the edited headline
EditedSlides(carousel) ==
    {carousel.slides[j].id : j \in {k \in 1..Len(carousel.slides) :
                                        Get(carousel.slides[k], "headline") = Str("h1")}}

\* the edits of carousel before are in carousel after
KeepsEdits(before, after) ==
    before.id = after.id => EditedSlides(before) \subseteq EditedSlides(after)

\* C30: the step that ends a bulk image generation keeps the edited
\* headlines of the current carousel and of every history entry.
C30_EditSurvivesGeneration ==
    [][HandlerEnds({"carousel", "allImages"}) =>
          /\ (~IsNull(currentCarousel) /\ ~IsNull(currentCarousel')) =>
                KeepsEdits(The(currentCarousel), The(currentCarousel'))
          /\ \A i \in 1..Len(carouselHistory), j \in 1..Len(carouselHistory') :
                KeepsEdits(carouselHistory[i], carouselHistory'[j])]_vars
----------------------------------------------------------------------------
(* SpecLogout: the user logs out with the Header's button while a          *)
(* generation or an export may be in flight.                               *)

NextLogout ==
    \/ startNewCarousel
    \/ \E id \in HistoryIds(carouselHistory) : handleEditCarousel(id)
    \/ /\ tasks = <<>>
       /\ handleGenerateCarousel("Coffee Brewing", "", FormPreferences, FALSE)
    \/ \E t \in DOMAIN tasks : contentResolved(t, 1, StorageOk)
    \/ \E t \in DOMAIN tasks : contentRejected(t, "Network error")
    \/ /\ tasks = <<>>
       /\ \E elements \in RenderedElements : handleDownloadCarousel(elements)
    \/ \E t \in DOMAIN tasks : slideRasterized(t, "blob")
    \/ \E t \in DOMAIN tasks : archiveBuilt(t, TRUE, TRUE)
    \/ handleLogout
    \/ \E t \in DOMAIN tasks, ok \in BOOLEAN : loggedOut(t, ok, StorageOk)

SpecLogout == (\E n \in 1..MaxCarousels : InitWith(n, "key")) /\ [][NextLogout]_vars

\* C31: with no user signed in and no logout waiting for signOut, the
\* history in memory is empty, the download counter is 0, the current
\* carousel is null and the stored history holds no carousel.
C31_LoggedOutStaysCleared ==
    (IsNull(user) /\ \A t \in DOMAIN tasks : tasks[t].kind # "logout") =>
        /\ carouselHistory = <<>>
        /\ downloadCount = 0
        /\ IsNull(currentCarousel)
        /\ stored = <<>>
----------------------------------------------------------------------------
(* SpecEvict: saved carousels are opened, given an inline video and        *)
(* flushed, and each save meets a storage that accepts the write, rejects  *)
(* it for quota or rejects it for another reason, attempt by attempt.      *)

NextEvict ==
    \/ \E id \in HistoryIds(carouselHistory) : handleEditCarousel(id)
    \/ \E st \in StorageBehaviours : goToDashboard(st)
    \/ \E id \in SelectedIds, st \in StorageBehaviours :
            handleUpdateSlide(id, [backgroundImage |-> VideoPayload(0)], st)

SpecEvict == Init /\ [][NextEvict]_vars

\* sto is what JSON.stringify keeps of the object mem, the keys in drop
\* left out
WrittenCopy(mem, sto, drop) ==
    LET kept == {k \in DOMAIN mem : k \notin drop /\ mem[k] # Undefined}
    IN  DOMAIN sto = kept /\ \A k \in kept : sto[k] = mem[k]

\* sto is the copy of the carousel mem without its inline videos
StrippedCarousel(mem, sto) ==
    /\ DOMAIN sto = DOMAIN mem
    /\ \A k \in DOMAIN mem \ {"slides", "preferences"} : sto[k] = mem[k]
    /\ WrittenCopy(mem.preferences, sto.preferences, {})
    /\ Len(sto.slides) = Len(mem.slides)
    /\ \A j \in 1..Len(mem.slides) :
          WrittenCopy(mem.slides[j], sto.slides[j],
                      IF StartsWithDataVideo(mem.slides[j]) THEN {"backgroundImage"} ELSE {})

\* the last save wrote a snapshot
LastSaveWrote(log) == Len(log) > 0 /\ log[Len(log)].outcome = "ok"

\* C32: (1) after a save that wrote, the stored snapshot is the copy
\* without inline videos of the newest entries of the history in memory;
\* (2) a step keeps the entries of the history in memory and their order,
\* each entry as it was or as the current carousel is, whatever the storage
\* does, and keeps their inline videos; (3) a step whose save gave up
\* leaves the stored snapshot as it was.
C32_EvictionTrimsStorageOnly ==
    /\ [](LastSaveWrote(writeLog) =>
            /\ Len(stored) <= Len(carouselHistory)
            /\ \A i \in 1..Len(stored) : StrippedCarousel(carouselHistory[i], stored[i]))
    /\ [][/\ Len(carouselHistory') = Len(carouselHistory)
          /\ \A i \in 1..Len(carouselHistory) :
                /\ carouselHistory'[i].id = carouselHistory[i].id
                /\ \/ carouselHistory'[i] = carouselHistory[i]
                   \/ carouselHistory'[i] \in {The(c) : c \in {currentCarousel,
                                                              currentCarousel'} \ {Null}}
                /\ \A j \in 1..Len(carouselHistory[i].slides) :
                      StartsWithDataVideo(carouselHistory[i].slides[j]) =>
                          StartsWithDataVideo(carouselHistory'[i].slides[j])
          /\ ~LastSaveWrote(writeLog') => stored' = stored]_vars

\* a history of two or more with an inline video in memory was saved after
\* the eviction of its oldest entry: fewer entries are stored than are in
\* memory
C32_Witness ==
    /\ Len(carouselHistory) >= 2
    /\ Len(writeLog) >= 2
    /\ writeLog[1].outcome = "quota"
    /\ LastSaveWrote(writeLog)
    /\ Len(stored) < Len(carouselHistory)
    /\ \E i \in 1..Len(stored) : \E j \in 1..Len(carouselHistory[i].slides) :
          StartsWithDataVideo(carouselHistory[i].slides[j])
----------------------------------------------------------------------------
(* SpecDelete: saved carousels are opened, an image for one slide or for   *)
(* all slides is requested, the user goes back to the dashboard and        *)
(* deletes carousels, also the one whose images are still awaited.         *)

NextDelete ==
    \/ \E id \in HistoryIds(carouselHistory) : handleEditCarousel(id)
    \/ goToDashboard(StorageOk)
    \/ \E id \in HistoryIds(carouselHistory) \cup {UnknownId}, confirmed \in BOOLEAN :
            handleDeleteCarousel(id, confirmed, StorageOk)
    \/ /\ tasks = <<>>
       /\ \E id \in SelectedIds : handleGenerateImageForSlide(id)
    \/ \E t \in DOMAIN tasks : \E updates \in SlideResults(tasks[t]) :
            slideCallResolved(t, updates, StorageOk)
    \/ /\ tasks = <<>>
       /\ handleGenerateAllImages(StorageOk)
    \/ \E t \in DOMAIN tasks, resolved \in BOOLEAN : imageSettled(t, resolved, StorageOk)

SpecDelete == (\E n \in 1..MaxCarousels : InitWith(n, "key")) /\ [][NextDelete]_vars

\* after is before without its entries of that id, the others in their
\* order
RemovedExactly(before, after, id) ==
    LET kept == {i \in 1..Len(before) : before[i].id # id}
    IN  /\ Len(after) = Cardinality(kept)
        /\ \A i \in kept : after[Cardinality({j \in kept : j <= i})] = before[i]

\* C33: a confirmed handleDeleteCarousel(id) leaves the history without its
\* entries of that id and the others in their order, a declined one changes
\* nothing, and no step puts into the history an id that is not in it (no
\* carousel is generated here), so that a deleted id does not come back
\* when an operation started on that carousel completes.
C33_DeletedStaysDeleted ==
    [][/\ \A id \in HistoryIds(carouselHistory) \cup {UnknownId} :
             /\ handleDeleteCarousel(id, TRUE, StorageOk) =>
                    RemovedExactly(carouselHistory, carouselHistory', id)
             /\ handleDeleteCarousel(id, FALSE, StorageOk) => UNCHANGED vars
       /\ HistoryIds(carouselHistory') \subseteq HistoryIds(carouselHistory)
       /\ HistoryIds(stored') \subseteq HistoryIds(carouselHistory')]_vars

\* a carousel was deleted while its images were awaited, and the loop has
\* ended: it is the current carousel, with an image, and not in the history
C33_Witness ==
    /\ ~IsNull(currentCarousel)
    /\ The(currentCarousel).id \notin HistoryIds(carouselHistory)
    /\ tasks = <<>>
    /\ view = "DASHBOARD"
    /\ \E j \in 1..Len(The(currentCarousel).slides) :
          Get(The(currentCarousel).slides[j], "backgroundImage") # Undefined
====
